---- MODULE Spec2Model ----
(***************************************************************************)
(* Multi-source port-binding reconciliation (rust/src/system/ports.rs):    *)
(* the Windows stack reader list_bindings, the socket probe                *)
(* probe_port_in_use, the merge list_bindings_enhanced, suggest_free_port  *)
(* and kill_process.                                                       *)
(***************************************************************************)
EXTENDS Integers, Sequences, FiniteSets, Bags, TLC

VARIABLES
    pc,                   \* position of the operation in flight
    port,                 \* the port argument of list_bindings / list_bindings_enhanced / probe
    sockets,              \* what get_sockets_info returned in this call (ok: Ok or Err; the entries)
    sys,                  \* the process snapshot of this call (set of live PIDs)
    result,               \* the PortScanResult under construction / returned
    port_in_use,          \* local of list_bindings_enhanced
    has_visible_bindings, \* local of list_bindings_enhanced
    docker_bindings,      \* local of list_bindings_enhanced (raw Docker records)
    wsl_bindings,         \* local of list_bindings_enhanced (raw WSL records)
    docker_calls,         \* the commands the Docker probe ran in this scan and how each ended
    outcomes,             \* per address family, what TcpListener::bind does for the probed port
    addr_idx,             \* probe_port_in_use: index into addrs of the next bind
    listener,             \* probe_port_in_use: the address a live TcpListener is bound to, or "none"
    attempts,             \* probe_port_in_use: the binds made so far, in order
    probe_ret,            \* probe_port_in_use: the value returned
    caller,               \* probe_port_in_use: who called it ("none" or "suggest")
    range,                \* suggest_free_port: the RangeInclusive<u16> iterator and its arguments
    probed,               \* suggest_free_port: the ports probed so far with the probe's answer
    suggest_ret,          \* suggest_free_port: the Option<u16> returned
    pid,                  \* kill_process: the argument
    procs,                \* kill_process: the live processes of the host
    kill_log,             \* kill_process: snapshots taken and kills attempted, in order
    kill_ret,             \* kill_process: the Result returned
    containers,           \* the containers of the Docker daemon when docker ps ran in the scan
    round,                \* 1 in a first scan, 2 in the scan that repeats it
    first,                \* what the first scan read and returned, kept for the comparison
    distros_out,          \* get_running_wsl_distros: how wsl --list ended and the distros it named
    ss_out,               \* get_wsl_port_bindings: per listed distro, how ss ended and its rows
    sweep_idx,            \* get_wsl_port_bindings: position of the for loop in the distro list
    wsl_calls,            \* get_wsl_port_bindings: the wsl commands run, in order
    sweep_acc,            \* get_wsl_port_bindings: the bindings Vec
    ps_stdout,            \* get_docker_port_bindings: the lines docker ps printed
    line_idx,             \* get_docker_port_bindings: position of the for loop in the lines
    parse_acc,            \* get_docker_port_bindings: the bindings Vec
    binding,              \* on_force_close: the binding of the clicked row
    is_admin,             \* ports page: whether the process runs elevated
    port_input,           \* AppState.port_input
    scan_result,          \* AppState.scan_result
    status_type,          \* AppState.status_type
    netsh,                \* force_close_socket: the netsh queries run and how each ended
    diagnostics,          \* force_close_socket: the diagnostics Vec
    fc_ret,               \* force_close_socket: the Result returned
    effects,              \* on_force_close: commands run, sleeps and scans after the diagnosis
    ss_distro,            \* get_wsl_port_bindings: the distro of the loop iteration
    ss_stdout,            \* get_wsl_port_bindings: the lines ss printed in that distro
    ss_idx,               \* get_wsl_port_bindings: position of the for loop in the lines
    ss_acc,               \* get_wsl_port_bindings: the bindings Vec
    tasks,                \* ports page: the bag of suspended handlers, each with its locals
    is_scanning,          \* AppState.is_scanning
    scan_calls,           \* ports page: the calls of list_bindings_enhanced started so far
    shown,                \* ports page: whether scan_result holds the result of a call
    latest                \* ports page: what the newest call returned, once it has returned

vars == <<pc, port, sockets, sys, result, port_in_use, has_visible_bindings,
          docker_bindings, wsl_bindings, docker_calls, outcomes, addr_idx,
          listener, attempts, probe_ret, caller, range, probed, suggest_ret,
          pid, procs, kill_log, kill_ret, containers, round, first,
          distros_out, ss_out, sweep_idx, wsl_calls, sweep_acc, ps_stdout, line_idx, parse_acc,
          binding, is_admin, port_input, scan_result, status_type, netsh, diagnostics, fc_ret,
          effects, ss_distro, ss_stdout, ss_idx, ss_acc, tasks, is_scanning, scan_calls, shown, latest>>

scanVars == <<port_in_use, has_visible_bindings, docker_bindings, wsl_bindings, docker_calls>>
readerVars == <<sockets, sys, result>>
probeVars == <<outcomes, addr_idx, listener, attempts, probe_ret, caller>>
suggestVars == <<range, probed, suggest_ret>>
killVars == <<pid, procs, kill_log, kill_ret>>
hostVars == <<containers>>
replayVars == <<round, first>>
sweepVars == <<distros_out, ss_out, sweep_idx, wsl_calls, sweep_acc>>
parseVars == <<ps_stdout, line_idx, parse_acc>>
fcVars == <<binding, is_admin, port_input, scan_result, status_type, netsh, diagnostics, fc_ret,
            effects>>
toolVars == <<sweepVars, parseVars, fcVars>>
ssVars == <<ss_distro, ss_stdout, ss_idx, ss_acc>>
pageVars == <<tasks, is_scanning, scan_calls, shown, latest>>

(***************************************************************************)
(* Bounds of the model.                                                    *)
(***************************************************************************)
MaxSockets == 2       \* socket-table entries handed to a standalone list_bindings
MaxTasks == 2         \* handlers of the ports page suspended at the same time
MaxCalls == 3         \* calls of list_bindings_enhanced the ports page makes
MaxSsLines == 2       \* lines ss prints after its header in one distro
MaxDistros == 2       \* running distros named by wsl --list in a sweep
MaxLines == 2         \* lines printed by docker ps in a text-level run of the Docker probe
MaxNetshLines == 1    \* lines printed by one netsh query
MaxScanSockets == 2   \* socket-table entries in a list_bindings_enhanced scan
MaxDocker == 1        \* port mappings printed by docker ps
MaxWsl == 2           \* rows printed by ss inside the WSL distros
RangeSpan == 3        \* ports below u16::MAX that suggest_free_port may range over

(***************************************************************************)
(* Strings, as the std str methods used by the code compute them.          *)
(***************************************************************************)
Contains(s, sub) ==
    \E i \in 1..(Len(s) - Len(sub) + 1) : SubSeq(s, i, i + Len(sub) - 1) = sub

StartsWith(s, prefix) ==
    /\ Len(prefix) <= Len(s)
    /\ SubSeq(s, 1, Len(prefix)) = prefix

(***************************************************************************)
(* state/mod.rs                                                            *)
(***************************************************************************)
BindingSource == {"Windows", "Docker", "Wsl", "UnknownShadow"}

\* faulty variant of DefaultPortScanResult: the failed enumeration is reported as a row
DefaultPortScanResultErrorRow ==
    [bindings |-> <<[pid |-> 0, process_name |-> "<error>", local_ip |-> "", local_port |-> 0,
                     state |-> "", is_loopback |-> FALSE, is_all_interfaces |-> FALSE,
                     is_orphan |-> FALSE, is_system |-> FALSE, source |-> "Windows",
                     source_detail |-> ""]>>,
     conflict_pids |-> <<>>,
     orphan_pids |-> <<>>,
     docker_bindings |-> <<>>,
     wsl_bindings |-> <<>>,
     shadow_detected |-> FALSE]

DefaultPortScanResult ==
    [bindings |-> <<>>, conflict_pids |-> <<>>, orphan_pids |-> <<>>,
     docker_bindings |-> <<>>, wsl_bindings |-> <<>>, shadow_detected |-> FALSE]

(***************************************************************************)
(* The host: ports, PIDs, process names, socket-table entries.             *)
(***************************************************************************)
Ports == {8080, 3000}
Pids == {0, 4, 7, 9}
Snapshots == SUBSET {4, 7, 9}

ProcessName(p) == IF p = 4 THEN "System" ELSE IF p = 7 THEN "node.exe" ELSE "svchost.exe"

LocalAddrs == {"127.0.0.1", "127.5.0.1", "::1", "0.0.0.0", "::", "10.0.0.5"}
AssociatedPids == {<<>>, <<4>>, <<7>>, <<9, 7>>}

SocketPool ==
    [proto : {"Tcp"}, local_port : {8080}, local_addr : LocalAddrs,
     associated_pids : AssociatedPids, state : {"Listen"}]
    \cup {[proto |-> "Tcp", local_port |-> 3000, local_addr |-> "127.0.0.1",
           associated_pids |-> <<7>>, state |-> "Established"],
          [proto |-> "Udp", local_port |-> 8080, local_addr |-> "0.0.0.0",
           associated_pids |-> <<7>>, state |-> "Listen"]}

SeqsUpTo(S, n) == UNION {[1..k -> S] : k \in 0..n}

\* the outcomes of get_sockets_info: Err, or Ok with at most n entries
SocketTables(n) ==
    {[ok |-> FALSE, entries |-> <<>>]} \cup [ok : {TRUE}, entries : SeqsUpTo(SocketPool, n)]

\* every order in which the elements of a finite set can be enumerated
Orders(S) == {q \in [1..Cardinality(S) -> S] : \A i, j \in 1..Cardinality(S) : q[i] = q[j] => i = j}

SeqToSet(q) == {q[i] : i \in 1..Len(q)}

(***************************************************************************)
(* list_bindings: the Windows stack reader.                                *)
(***************************************************************************)
\* faulty variant of WindowsBinding: the orphan test without the system-PID guard
WindowsBindingNoSystemGuard(socket, snapshot) ==
    LET p == IF socket.associated_pids = <<>> THEN 0 ELSE Head(socket.associated_pids)
        is_system == p = 0 \/ p = 4
        local_ip == socket.local_addr
    IN  [pid |-> p,
         process_name |-> IF p \in snapshot THEN ProcessName(p) ELSE "<orphaned>",
         local_ip |-> local_ip,
         local_port |-> socket.local_port,
         state |-> socket.state,
         is_loopback |-> StartsWith(local_ip, "127.") \/ local_ip = "::1",
         is_all_interfaces |-> local_ip = "0.0.0.0" \/ local_ip = "::",
         is_orphan |-> p \notin snapshot,
         is_system |-> is_system,
         source |-> "Windows",
         source_detail |-> ""]

\* the PortBinding pushed for one socket-table entry on the scanned port
WindowsBinding(socket, snapshot) ==
    LET p == IF socket.associated_pids = <<>> THEN 0 ELSE Head(socket.associated_pids)
        is_system == p = 0 \/ p = 4
        named == IF is_system
                     THEN <<IF p = 0 THEN "[System Idle]" ELSE "[System]", FALSE>>
                 ELSE IF p > 0
                     THEN IF p \in snapshot THEN <<ProcessName(p), FALSE>>
                                            ELSE <<"<orphaned>", TRUE>>
                 ELSE <<"<unknown>", FALSE>>
        local_ip == socket.local_addr
    IN  [pid |-> p,
         process_name |-> named[1],
         local_ip |-> local_ip,
         local_port |-> socket.local_port,
         state |-> socket.state,
         is_loopback |-> StartsWith(local_ip, "127.") \/ local_ip = "::1",
         is_all_interfaces |-> local_ip = "0.0.0.0" \/ local_ip = "::",
         is_orphan |-> named[2],
         is_system |-> is_system,
         source |-> "Windows",
         source_detail |-> ""]

\* faulty variant of OnPort: the local port is not compared
OnPortAnyPort(socket, p) == socket.proto = "Tcp"

OnPort(socket, p) == socket.proto = "Tcp" /\ socket.local_port = p

RECURSIVE WindowsBindings(_, _, _)
\* the loop over the socket table
WindowsBindings(socks, p, snapshot) ==
    IF socks = <<>> THEN <<>>
    ELSE (IF OnPort(Head(socks), p) THEN <<WindowsBinding(Head(socks), snapshot)>> ELSE <<>>)
         \o WindowsBindings(Tail(socks), p, snapshot)

\* faulty variant of loopback_pids: the is_loopback filter is missing
loopback_pids_unfiltered(bindings) == {bindings[i].pid : i \in 1..Len(bindings)}

loopback_pids(bindings) == {bindings[i].pid : i \in {k \in 1..Len(bindings) : bindings[k].is_loopback}}

all_interface_pids(bindings) ==
    {bindings[i].pid : i \in {k \in 1..Len(bindings) : bindings[k].is_all_interfaces}}

\* faulty variant of ConflictSet: union in place of intersection
ConflictSetUnion(bindings) == loopback_pids(bindings) \cup all_interface_pids(bindings)

ConflictSet(bindings) == loopback_pids(bindings) \cap all_interface_pids(bindings)

RECURSIVE OrphanPidsDedup(_)
\* faulty variant of OrphanPids: each PID kept once
OrphanPidsDedup(bindings) ==
    IF bindings = <<>> THEN <<>>
    ELSE LET rest == OrphanPidsDedup(Tail(bindings))
         IN  (IF Head(bindings).is_orphan /\ Head(bindings).pid \notin {rest[i] : i \in 1..Len(rest)}
                 THEN <<Head(bindings).pid>> ELSE <<>>) \o rest

RECURSIVE OrphanPids(_)
\* bindings.iter().filter(|b| b.is_orphan).map(|b| b.pid).collect::<Vec<u32>>()
OrphanPids(bindings) ==
    IF bindings = <<>> THEN <<>>
    ELSE (IF Head(bindings).is_orphan THEN <<Head(bindings).pid>> ELSE <<>>)
         \o OrphanPids(Tail(bindings))

\* faulty variant of list_bindings: a reader that finds nothing already announces a shadow
list_bindings_shadow_early(p, socks, snapshot) ==
    IF ~socks.ok THEN {DefaultPortScanResult}
    ELSE LET bindings == WindowsBindings(socks.entries, p, snapshot)
         IN  {[bindings |-> bindings,
               conflict_pids |-> order,
               orphan_pids |-> OrphanPids(bindings),
               docker_bindings |-> <<>>,
               wsl_bindings |-> <<>>,
               shadow_detected |-> bindings = <<>>] : order \in Orders(ConflictSet(bindings))}

\* the results list_bindings can return: the HashSet intersection is collected in any order
list_bindings(p, socks, snapshot) ==
    IF ~socks.ok THEN {DefaultPortScanResult}
    ELSE LET bindings == WindowsBindings(socks.entries, p, snapshot)
         IN  {[bindings |-> bindings,
               conflict_pids |-> order,
               orphan_pids |-> OrphanPids(bindings),
               docker_bindings |-> <<>>,
               wsl_bindings |-> <<>>,
               shadow_detected |-> FALSE] : order \in Orders(ConflictSet(bindings))}

\* Option<u16>
None == [some |-> FALSE, value |-> 0]
Some(v) == [some |-> TRUE, value |-> v]

Idle ==
    /\ pc = "idle"
    /\ port = 0
    /\ sockets = [ok |-> TRUE, entries |-> <<>>]
    /\ sys = {}
    /\ result = DefaultPortScanResult
    /\ port_in_use = FALSE
    /\ has_visible_bindings = FALSE
    /\ docker_bindings = <<>>
    /\ wsl_bindings = <<>>
    /\ docker_calls = <<>>
    /\ outcomes = <<>>
    /\ addr_idx = 0
    /\ listener = "none"
    /\ attempts = <<>>
    /\ probe_ret = FALSE
    /\ caller = "none"
    /\ range = [start |-> 1, end |-> 0, exhausted |-> FALSE, first |-> 1, last |-> 0]
    /\ probed = <<>>
    /\ suggest_ret = None
    /\ pid = 0
    /\ procs = {}
    /\ kill_log = <<>>
    /\ kill_ret = [ok |-> FALSE, msg |-> "", arg |-> 0]
    /\ containers = <<>>
    /\ round = 1
    /\ first = [result |-> DefaultPortScanResult, docker_calls |-> <<>>,
                containers |-> <<>>]
    /\ distros_out = [ok |-> TRUE, names |-> <<>>]
    /\ ss_out = <<>>
    /\ sweep_idx = 0
    /\ wsl_calls = <<>>
    /\ sweep_acc = <<>>
    /\ ps_stdout = <<>>
    /\ line_idx = 0
    /\ parse_acc = <<>>
    /\ binding = [local_port |-> 0, pid |-> 0]
    /\ is_admin = FALSE
    /\ port_input = 0
    /\ scan_result = DefaultPortScanResult
    /\ status_type = ""
    /\ netsh = <<>>
    /\ diagnostics = <<>>
    /\ fc_ret = [ok |-> FALSE, msg |-> ""]
    /\ effects = <<>>
    /\ ss_distro = ""
    /\ ss_stdout = <<>>
    /\ ss_idx = 0
    /\ ss_acc = <<>>
    /\ tasks = EmptyBag
    /\ is_scanning = FALSE
    /\ scan_calls = 0
    /\ shown = FALSE
    /\ latest = DefaultPortScanResult

\* a call of list_bindings(p) from the idle program
ListBindings ==
    /\ pc = "idle"
    /\ \E p \in Ports, socks \in SocketTables(MaxSockets), snapshot \in Snapshots :
          /\ port' = p
          /\ sockets' = socks
          /\ sys' = snapshot
          /\ result' \in list_bindings(p, socks, snapshot)
    /\ pc' = "returned"
    /\ UNCHANGED <<scanVars, probeVars, suggestVars, killVars, hostVars, replayVars, toolVars,
                   ssVars, pageVars>>

InitReader == Idle
NextReader == ListBindings
SpecReader == InitReader /\ [][NextReader]_vars

(***************************************************************************)
(* probe_port_in_use: the socket probe.                                    *)
(***************************************************************************)
WSAEADDRINUSE == 10048
WSAEACCES == 10013
NoOsError == 0 - 1    \* raw_os_error() = None

\* what TcpListener::bind can do: Ok, or Err carrying raw_os_error()
BindOutcomes ==
    {[ok |-> TRUE, raw_os_error |-> NoOsError]}
    \cup [ok : {FALSE}, raw_os_error : {WSAEADDRINUSE, WSAEACCES, NoOsError}]

\* addrs[1] is the IPv4 wildcard, addrs[2] the IPv6 wildcard
addrs == <<"0.0.0.0", "::">>

\* faulty variant of BindVerdict: every bind failure counts as in use
BindVerdictAnyError(o) == IF o.ok THEN "free" ELSE "in_use"

\* the match on one bind: return false, return true, or go on with the next address
BindVerdict(o) ==
    IF o.ok THEN "free"
    ELSE IF o.raw_os_error # NoOsError /\ o.raw_os_error = WSAEADDRINUSE THEN "in_use"
    ELSE "continue"

RECURSIVE ProbeFrom(_, _)
\* the for loop of probe_port_in_use from addrs[i] on; outs[i] is what bind(addrs[i]) does
ProbeFrom(outs, i) ==
    IF i > Len(addrs) THEN FALSE
    ELSE IF BindVerdict(outs[i]) = "free" THEN FALSE
    ELSE IF BindVerdict(outs[i]) = "in_use" THEN TRUE
    ELSE ProbeFrom(outs, i + 1)

probe_port_in_use(outs) == ProbeFrom(outs, 1)

(***************************************************************************)
(* The Docker probe.                                                       *)
(***************************************************************************)
\* how the docker info command can end: it cannot be started, or it exits with a status
DockerInfoOutcomes == {"spawn_error", "exit_nonzero", "exit_zero"}

\* faulty variant of is_docker_running: any exit status counts as running
is_docker_running_any_exit(o) == o # "spawn_error"

\* Ok(status) => status.success(), Err(_) => false
is_docker_running(o) == o = "exit_zero"

\* the port mappings docker ps can print, already split into fields
DockerPool ==
    {[container_id |-> "a1b2", container_name |-> "web", image |-> "nginx",
      host_port |-> 8080, container_port |-> 80, protocol |-> "tcp"],
     [container_id |-> "c3d4", container_name |-> "api", image |-> "node",
      host_port |-> 3000, container_port |-> 3000, protocol |-> "tcp"]}

\* the outcomes of the docker ps command: failure, or the mappings it printed
DockerPsOutcomes ==
    {[ok |-> FALSE, mappings |-> <<>>]} \cup [ok : {TRUE}, mappings : SeqsUpTo(DockerPool, MaxDocker)]

\* the arguments of the docker command at ports.rs:65
DockerPsArgs == <<"ps", "--format", "{{.ID}}|{{.Names}}|{{.Image}}|{{.Ports}}">>

\* the containers a daemon can hold: a published mapping, and whether the container runs;
\* web is the container that can be stopped
ContainerPool ==
    {c \in [mapping : DockerPool, running : BOOLEAN] : c.running \/ c.mapping.container_name = "web"}

DockerHosts == SeqsUpTo(ContainerPool, MaxDocker)

\* what docker ps prints: the running containers, and the others too only under -a / --all
RECURSIVE Listed(_, _)
Listed(args, cs) ==
    IF cs = <<>> THEN <<>>
    ELSE (IF Head(cs).running \/ SeqToSet(args) \cap {"-a", "--all"} # {}
              THEN <<Head(cs).mapping>> ELSE <<>>)
         \o Listed(args, Tail(cs))

RECURSIVE OnHostPort(_, _)
OnHostPort(mappings, p) ==
    IF mappings = <<>> THEN <<>>
    ELSE (IF Head(mappings).host_port = p THEN <<Head(mappings)>> ELSE <<>>)
         \o OnHostPort(Tail(mappings), p)

\* faulty variant of get_docker_port_bindings: the bindings Vec outlives the call
get_docker_port_bindings_appending(p, out) ==
    docker_bindings \o (IF ~out.ok THEN <<>> ELSE OnHostPort(out.mappings, p))

get_docker_port_bindings(p, out) == IF ~out.ok THEN <<>> ELSE OnHostPort(out.mappings, p)

\* faulty variant of DockerBinding: the system test of the Windows reader applied to pid 0
DockerBindingSystemPid(db) ==
    [pid |-> 0,
     process_name |-> db.container_name \o " (" \o db.image \o ")",
     local_ip |-> "0.0.0.0",
     local_port |-> db.host_port,
     state |-> "LISTEN",
     is_loopback |-> FALSE,
     is_all_interfaces |-> TRUE,
     is_orphan |-> FALSE,
     is_system |-> TRUE,
     source |-> "Docker",
     source_detail |-> db.container_id]

DockerBinding(db) ==
    [pid |-> 0,
     process_name |-> db.container_name \o " (" \o db.image \o ")",
     local_ip |-> "0.0.0.0",
     local_port |-> db.host_port,
     state |-> "LISTEN",
     is_loopback |-> FALSE,
     is_all_interfaces |-> TRUE,
     is_orphan |-> FALSE,
     is_system |-> FALSE,
     source |-> "Docker",
     source_detail |-> db.container_id]

(***************************************************************************)
(* The WSL probe.                                                          *)
(***************************************************************************)
\* the rows ss prints inside the running distros, already split into fields
WslPool ==
    {[distro |-> "Ubuntu", process_name |-> "node", pid |-> 1234, port |-> 8080,
      local_addr |-> "0.0.0.0:8080"],
     [distro |-> "docker-desktop", process_name |-> "com.docker.backend", pid |-> 55, port |-> 8080,
      local_addr |-> "*:8080"],
     [distro |-> "Ubuntu", process_name |-> "containerd-shim", pid |-> 77, port |-> 8080,
      local_addr |-> "127.0.0.1:8080"],
     [distro |-> "Ubuntu", process_name |-> "dockerd", pid |-> 0, port |-> 8080,
      local_addr |-> "[::]:8080"],
     [distro |-> "docker-desktop", process_name |-> "Docker", pid |-> 9, port |-> 8080,
      local_addr |-> "[::1]:8080"],
     [distro |-> "Ubuntu", process_name |-> "node", pid |-> 1234, port |-> 8080,
      local_addr |-> "127.0.0.1:8080"],
     [distro |-> "Ubuntu", process_name |-> "node", pid |-> 1234, port |-> 3000,
      local_addr |-> "127.0.0.1:3000"]}

\* the rows a scan is given: a plain process, a Docker-like one, one that differs from a
\* Docker-like name by case only, and a row for another port
ScanWslPool ==
    {row \in WslPool : row.process_name \in {"node", "containerd-shim", "Docker"}}

WslOutcomes == SeqsUpTo(ScanWslPool, MaxWsl)

RECURSIVE get_wsl_port_bindings(_, _)
get_wsl_port_bindings(p, rows) ==
    IF rows = <<>> THEN <<>>
    ELSE (IF Head(rows).port = p THEN <<Head(rows)>> ELSE <<>>)
         \o get_wsl_port_bindings(p, Tail(rows))

Colons(s) == {i \in 1..Len(s) : SubSeq(s, i, i) = ":"}

Max(S) == CHOOSE x \in S : \A y \in S : y <= x

Min(S) == CHOOSE x \in S : \A y \in S : x <= y

\* s.rsplit(':').nth(1).unwrap_or("0.0.0.0")
RSplitColonNth1(s) ==
    IF Colons(s) = {} THEN "0.0.0.0"
    ELSE LET last == Max(Colons(s))
             before == {i \in Colons(s) : i < last}
             from == IF before = {} THEN 1 ELSE Max(before) + 1
         IN  SubSeq(s, from, last - 1)

\* faulty variant of WslBinding: the guest PID is dropped
WslBindingNoPid(wb) ==
    [pid |-> 0,
     process_name |-> wb.process_name \o " [WSL:" \o wb.distro \o "]",
     local_ip |-> RSplitColonNth1(wb.local_addr),
     local_port |-> wb.port,
     state |-> "LISTEN",
     is_loopback |-> StartsWith(wb.local_addr, "127.") \/ StartsWith(wb.local_addr, "[::1]"),
     is_all_interfaces |-> \/ StartsWith(wb.local_addr, "0.0.0.0")
                           \/ StartsWith(wb.local_addr, "[::]")
                           \/ StartsWith(wb.local_addr, "*"),
     is_orphan |-> FALSE,
     is_system |-> FALSE,
     source |-> "Wsl",
     source_detail |-> wb.distro]

WslBinding(wb) ==
    [pid |-> wb.pid,
     process_name |-> wb.process_name \o " [WSL:" \o wb.distro \o "]",
     local_ip |-> RSplitColonNth1(wb.local_addr),
     local_port |-> wb.port,
     state |-> "LISTEN",
     is_loopback |-> StartsWith(wb.local_addr, "127.") \/ StartsWith(wb.local_addr, "[::1]"),
     is_all_interfaces |-> \/ StartsWith(wb.local_addr, "0.0.0.0")
                           \/ StartsWith(wb.local_addr, "[::]")
                           \/ StartsWith(wb.local_addr, "*"),
     is_orphan |-> FALSE,
     is_system |-> FALSE,
     source |-> "Wsl",
     source_detail |-> wb.distro]

\* faulty variant of is_docker_process: only the "docker" pattern
is_docker_process_one_pattern(wb) == Contains(wb.process_name, "docker")

is_docker_process(wb) ==
    \/ Contains(wb.process_name, "docker")
    \/ Contains(wb.process_name, "containerd")
    \/ Contains(wb.process_name, "com.docker")

\* faulty variant of Suppressed: the Docker result is not consulted
SuppressedAlways(docker_has_port, wb) == is_docker_process(wb)

\* the skip test of the WSL merge loop
Suppressed(docker_has_port, wb) == docker_has_port /\ is_docker_process(wb)

RECURSIVE MergeWsl(_, _)
\* the bindings the WSL merge loop pushes
MergeWsl(docker_has_port, wbs) ==
    IF wbs = <<>> THEN <<>>
    ELSE (IF Suppressed(docker_has_port, Head(wbs)) THEN <<>> ELSE <<WslBinding(Head(wbs))>>)
         \o MergeWsl(docker_has_port, Tail(wbs))

RECURSIVE MapDocker(_)
\* the bindings the Docker merge loop pushes
MapDocker(dbs) == IF dbs = <<>> THEN <<>> ELSE <<DockerBinding(Head(dbs))>> \o MapDocker(Tail(dbs))

\* faulty variant of ShadowVerdict: the WSL result is not consulted
ShadowVerdictNoWsl(in_use, visible, dbs, wbs) == in_use /\ ~visible /\ dbs = <<>>

ShadowVerdict(in_use, visible, dbs, wbs) == in_use /\ ~visible /\ dbs = <<>> /\ wbs = <<>>

\* faulty variant of ShadowBinding: port and pid swapped
ShadowBindingSwapped(p) ==
    [pid |-> p,
     process_name |-> "<shadow binding>",
     local_ip |-> "?",
     local_port |-> 0,
     state |-> "UNKNOWN",
     is_loopback |-> FALSE,
     is_all_interfaces |-> TRUE,
     is_orphan |-> FALSE,
     is_system |-> FALSE,
     source |-> "UnknownShadow",
     source_detail |-> "Port in use but source not detected"]

ShadowBinding(p) ==
    [pid |-> 0,
     process_name |-> "<shadow binding>",
     local_ip |-> "?",
     local_port |-> p,
     state |-> "UNKNOWN",
     is_loopback |-> FALSE,
     is_all_interfaces |-> TRUE,
     is_orphan |-> FALSE,
     is_system |-> FALSE,
     source |-> "UnknownShadow",
     source_detail |-> "Port in use but source not detected"]

(***************************************************************************)
(* list_bindings_enhanced: the scan, one action per stretch between awaits.*)
(***************************************************************************)
ScanSocketPool ==
    {e \in SocketPool : /\ e.local_port = 8080
                        /\ e.proto = "Tcp"
                        /\ \/ e.local_addr \in {"127.0.0.1", "0.0.0.0"} /\ e.associated_pids = <<7>>
                           \/ e.local_addr = "0.0.0.0" /\ e.associated_pids = <<4>>}
ScanSnapshots == {{}, {4, 7, 9}}

ScanSocketTables ==
    {[ok |-> FALSE, entries |-> <<>>]} \cup [ok : {TRUE}, entries : SeqsUpTo(ScanSocketPool, MaxScanSockets)]

\* list_bindings, the socket probe, then is_docker_running() is awaited
ScanBegin ==
    /\ pc = "idle"
    /\ \E p \in Ports, socks \in ScanSocketTables, snapshot \in ScanSnapshots,
          outs \in [1..Len(addrs) -> BindOutcomes] :
          /\ port' = p
          /\ sockets' = socks
          /\ sys' = snapshot
          /\ \E r \in list_bindings(p, socks, snapshot) :
                /\ result' = r
                /\ has_visible_bindings' = (r.bindings # <<>>)
          /\ port_in_use' = probe_port_in_use(outs)
    /\ docker_calls' = <<[cmd |-> "docker info", status |-> "pending"]>>
    /\ pc' = "docker_info"
    /\ UNCHANGED <<docker_bindings, wsl_bindings, probeVars, suggestVars, killVars, hostVars, replayVars, toolVars,
                   ssVars, pageVars>>

\* docker info did not succeed: docker_bindings stays empty, the WSL probe is awaited
ScanDockerDown ==
    /\ pc = "docker_info"
    /\ \E o \in DockerInfoOutcomes :
          /\ ~is_docker_running(o)
          /\ round = 2 => o = first.docker_calls[1].status
          /\ docker_calls' = <<[cmd |-> "docker info", status |-> o]>>
    /\ docker_bindings' = <<>>
    /\ pc' = "wsl"
    /\ UNCHANGED <<port, sockets, sys, result, port_in_use, has_visible_bindings, wsl_bindings,
                   probeVars, suggestVars, killVars, hostVars, replayVars, toolVars,
                   ssVars, pageVars>>

\* docker info succeeded: get_docker_port_bindings is awaited
ScanDockerUp ==
    /\ pc = "docker_info"
    /\ \E o \in DockerInfoOutcomes :
          /\ is_docker_running(o)
          /\ round = 2 => o = first.docker_calls[1].status
          /\ docker_calls' = <<[cmd |-> "docker info", status |-> o],
                               [cmd |-> "docker ps", status |-> "pending"]>>
    /\ pc' = "docker_ps"
    /\ UNCHANGED <<port, sockets, sys, result, port_in_use, has_visible_bindings, docker_bindings,
                   wsl_bindings, probeVars, suggestVars, killVars,
                   hostVars, replayVars, toolVars, ssVars, pageVars>>

\* docker ps returned: its bindings are merged, the WSL probe is awaited
ScanDockerPs ==
    /\ pc = "docker_ps"
    /\ \E cs \in DockerHosts, out \in DockerPsOutcomes :
          LET dbs == get_docker_port_bindings(port, out)
          IN  /\ out.ok => out.mappings = Listed(DockerPsArgs, cs)
              /\ ~out.ok => cs = <<>>
              /\ round = 2 => /\ cs = first.containers
                              /\ out.ok = (first.docker_calls[2].status = "exit_zero")
              /\ containers' = cs
              /\ docker_bindings' = dbs
              /\ result' = [result EXCEPT !.bindings = @ \o MapDocker(dbs)]
              /\ docker_calls' = [docker_calls EXCEPT ![2].status = IF out.ok THEN "exit_zero" ELSE "failed"]
    /\ pc' = "wsl"
    /\ UNCHANGED <<port, sockets, sys, port_in_use, has_visible_bindings, wsl_bindings,
                   probeVars, suggestVars, killVars, replayVars, toolVars, ssVars, pageVars>>

\* what the WSL probe can read: anything in a first scan, and in the scan that repeats it
\* the rows for the scanned port that the first scan was given
WslReplies == IF round = 1 THEN WslOutcomes ELSE {first.result.wsl_bindings}

\* the WSL probe returned: merge, store the raw records, shadow verdict, return
ScanWsl ==
    /\ pc = "wsl"
    /\ \E rows \in WslReplies :
          LET wbs == get_wsl_port_bindings(port, rows)
              merged == result.bindings \o MergeWsl(docker_bindings # <<>>, wbs)
              shadow == ShadowVerdict(port_in_use, has_visible_bindings, docker_bindings, wbs)
          IN  /\ wsl_bindings' = wbs
              /\ result' = [result EXCEPT
                               !.bindings = IF shadow THEN Append(merged, ShadowBinding(port)) ELSE merged,
                               !.docker_bindings = docker_bindings,
                               !.wsl_bindings = wbs,
                               !.shadow_detected = shadow]
    /\ pc' = "scanned"
    /\ UNCHANGED <<port, sockets, sys, port_in_use, has_visible_bindings, docker_bindings,
                   docker_calls, probeVars, suggestVars, killVars,
                   hostVars, replayVars, toolVars, ssVars, pageVars>>

\* a second call of list_bindings_enhanced for the same port, for which the reader and the
\* socket probe return what they returned to the first call; in the later steps of this call
\* docker info, docker ps and the WSL probe return what they returned to the first call
ScanAgain ==
    /\ pc = "scanned"
    /\ round = 1
    /\ LET outs == CHOOSE o \in [1..Len(addrs) -> BindOutcomes] :
                        probe_port_in_use(o) = port_in_use
       IN  port_in_use' = probe_port_in_use(outs)
    /\ \E r \in list_bindings(port, sockets, sys) :
          /\ result' = r
          /\ has_visible_bindings' = (r.bindings # <<>>)
    /\ first' = [result |-> result, docker_calls |-> docker_calls,
                 containers |-> containers]
    /\ round' = 2
    /\ docker_calls' = <<[cmd |-> "docker info", status |-> "pending"]>>
    /\ pc' = "docker_info"
    /\ UNCHANGED <<port, sockets, sys, docker_bindings, wsl_bindings, probeVars, suggestVars,
                   killVars, hostVars, toolVars, ssVars, pageVars>>

Init == Idle
Next == ScanBegin \/ ScanDockerDown \/ ScanDockerUp \/ ScanDockerPs \/ ScanWsl
Spec == Init /\ [][Next]_vars

NextTwice == Next \/ ScanAgain
SpecTwice == Init /\ [][NextTwice]_vars

(***************************************************************************)
(* probe_port_in_use and suggest_free_port, one action per bind.           *)
(***************************************************************************)
U16Max == 65535

\* the ports suggest_free_port ranges over in the model: the top of the u16 range
Window == (U16Max - RangeSpan + 1)..U16Max

\* a call of probe_port_in_use(p) from the idle program
ProbeCall ==
    /\ pc = "idle"
    /\ \E p \in Ports, outs \in [1..Len(addrs) -> BindOutcomes] :
          /\ port' = p
          /\ outcomes' = outs
    /\ addr_idx' = 1
    /\ attempts' = <<>>
    /\ caller' = "none"
    /\ pc' = "probe_loop"
    /\ UNCHANGED <<readerVars, scanVars, listener, probe_ret, suggestVars, killVars,
                   hostVars, replayVars, toolVars, ssVars, pageVars>>

\* TcpListener::bind(addrs[addr_idx]) and the match on its result
ProbeBind ==
    /\ pc = "probe_loop"
    /\ addr_idx <= Len(addrs)
    /\ attempts' = Append(attempts, addrs[addr_idx])
    /\ LET verdict == BindVerdict(outcomes[addr_idx])
       IN  \/ /\ verdict = "free"
              /\ listener' = addrs[addr_idx]
              /\ pc' = "probe_bound"
              /\ UNCHANGED <<addr_idx, probe_ret, ssVars, pageVars>>
           \/ /\ verdict = "in_use"
              /\ probe_ret' = TRUE
              /\ pc' = "probe_returned"
              /\ UNCHANGED <<addr_idx, listener, ssVars, pageVars>>
           \/ /\ verdict = "continue"
              /\ addr_idx' = addr_idx + 1
              /\ UNCHANGED <<pc, listener, probe_ret, ssVars, pageVars>>
    /\ UNCHANGED <<port, readerVars, scanVars, outcomes, caller, suggestVars, killVars,
                   hostVars, replayVars, toolVars, ssVars, pageVars>>

\* return false from the Ok arm: _listener is dropped
ProbeReturnFree ==
    /\ pc = "probe_bound"
    /\ listener' = "none"
    /\ probe_ret' = FALSE
    /\ pc' = "probe_returned"
    /\ UNCHANGED <<port, readerVars, scanVars, outcomes, addr_idx, attempts, caller, suggestVars, killVars,
                   hostVars, replayVars, toolVars, ssVars, pageVars>>

\* the loop ran out of addresses: return false
ProbeExhausted ==
    /\ pc = "probe_loop"
    /\ addr_idx > Len(addrs)
    /\ probe_ret' = FALSE
    /\ pc' = "probe_returned"
    /\ UNCHANGED <<port, readerVars, scanVars, outcomes, addr_idx, listener, attempts, caller,
                   suggestVars, killVars, hostVars, replayVars, toolVars, ssVars, pageVars>>

\* faulty variant of RangeNext: a counting loop whose increment wraps at u16::MAX
RangeNextWrapping(r) ==
    IF r.start > r.end THEN [item |-> None, range |-> r]
    ELSE [item |-> Some(r.start), range |-> [r EXCEPT !.start = (r.start + 1) % (U16Max + 1)]]

\* RangeInclusive<u16>::next
RangeNext(r) ==
    IF r.exhausted \/ r.start > r.end THEN [item |-> None, range |-> r]
    ELSE IF r.start < r.end
        THEN [item |-> Some(r.start), range |-> [r EXCEPT !.start = (r.start + 1) % (U16Max + 1)]]
    ELSE [item |-> Some(r.start), range |-> [r EXCEPT !.exhausted = TRUE]]

\* a call of suggest_free_port(start, end) from the idle program
SuggestCall ==
    /\ pc = "idle"
    /\ \E start \in Window, end \in Window :
          range' = [start |-> start, end |-> end, exhausted |-> FALSE, first |-> start, last |-> end]
    /\ probed' = <<>>
    /\ pc' = "suggest_loop"
    /\ UNCHANGED <<port, readerVars, scanVars, probeVars, suggest_ret, killVars, hostVars, replayVars, toolVars,
                   ssVars, pageVars>>

\* find takes the next port of the range and calls the probe on it, or returns None
SuggestNext ==
    /\ pc = "suggest_loop"
    /\ LET nx == RangeNext(range)
       IN  /\ range' = nx.range
           /\ IF nx.item.some
                 THEN /\ port' = nx.item.value
                      /\ \E outs \in [1..Len(addrs) -> BindOutcomes] : outcomes' = outs
                      /\ addr_idx' = 1
                      /\ attempts' = <<>>
                      /\ caller' = "suggest"
                      /\ pc' = "probe_loop"
                      /\ UNCHANGED suggest_ret
                 ELSE /\ suggest_ret' = None
                      /\ pc' = "suggest_returned"
                      /\ UNCHANGED <<port, outcomes, addr_idx, attempts, caller, ssVars, pageVars>>
    /\ UNCHANGED <<readerVars, scanVars, listener, probe_ret, probed, killVars, hostVars, replayVars, toolVars,
                   ssVars, pageVars>>

\* the probe returned to the find closure: a free port ends the search
SuggestResume ==
    /\ pc = "probe_returned"
    /\ caller = "suggest"
    /\ probed' = Append(probed, [port |-> port, in_use |-> probe_ret])
    /\ caller' = "none"
    /\ IF ~probe_ret
          THEN /\ suggest_ret' = Some(port)
               /\ pc' = "suggest_returned"
          ELSE /\ pc' = "suggest_loop"
               /\ UNCHANGED suggest_ret
    /\ UNCHANGED <<port, readerVars, scanVars, outcomes, addr_idx, listener, attempts, probe_ret,
                   range, killVars, hostVars, replayVars, toolVars, ssVars, pageVars>>

InitProbe == Idle
NextProbe == ProbeCall \/ ProbeBind \/ ProbeReturnFree \/ ProbeExhausted
                \/ SuggestCall \/ SuggestNext \/ SuggestResume
SpecProbe == InitProbe /\ [][NextProbe]_vars
\* every bind returns, so a probe or a search that can take a step does take it
SpecProbeFair == SpecProbe /\ WF_vars(NextProbe)

(***************************************************************************)
(* kill_process, one action per call to the host.                          *)
(***************************************************************************)
\* faulty variant of RejectsPid: no PID is rejected up front
RejectsNoPid(p) == FALSE

\* the guard at the top of kill_process
RejectsPid(p) == p = 0

\* Result<(), String>: Ok(()), or Err with the message and the PID formatted into it
Ok == [ok |-> TRUE, msg |-> "", arg |-> 0]
Err(msg, p) == [ok |-> FALSE, msg |-> msg, arg |-> p]

\* a call of kill_process(p) from the idle program, on a host whose live processes are procs
KillCall ==
    /\ pc = "idle"
    /\ \E p \in Pids, live \in SUBSET Pids :
          /\ pid' = p
          /\ procs' = live
          /\ IF RejectsPid(p)
                THEN /\ kill_ret' = Err("Cannot kill PID 0", 0)
                     /\ pc' = "kill_returned"
                ELSE /\ pc' = "kill_refresh"
                     /\ UNCHANGED kill_ret
    /\ kill_log' = <<>>
    /\ UNCHANGED <<port, readerVars, scanVars, probeVars, suggestVars, hostVars, replayVars, toolVars,
                   ssVars, pageVars>>

\* System::new, refresh_processes and the lookup of the PID in the snapshot
KillRefresh ==
    /\ pc = "kill_refresh"
    /\ sys' = procs
    /\ kill_log' = Append(kill_log, [call |-> "refresh_processes", ok |-> TRUE])
    /\ IF pid \in procs
          THEN /\ pc' = "kill_signal"
               /\ UNCHANGED kill_ret
          ELSE /\ kill_ret' = Err("Process {} not found", pid)
               /\ pc' = "kill_returned"
    /\ UNCHANGED <<port, sockets, result, scanVars, probeVars, suggestVars, pid, procs,
                   hostVars, replayVars, toolVars, ssVars, pageVars>>

\* process.kill() and the Result built from what it returns
KillSignal ==
    /\ pc = "kill_signal"
    /\ \E killed \in BOOLEAN :
          /\ kill_log' = Append(kill_log, [call |-> "kill", ok |-> killed])
          /\ IF killed
                THEN /\ procs' = procs \ {pid}
                     /\ kill_ret' = Ok
                ELSE /\ kill_ret' = Err("Failed to kill process {}", pid)
                     /\ UNCHANGED procs
    /\ pc' = "kill_returned"
    /\ UNCHANGED <<port, readerVars, scanVars, probeVars, suggestVars, pid, hostVars, replayVars, toolVars,
                   ssVars, pageVars>>

InitKill == Idle
NextKill == KillCall \/ KillRefresh \/ KillSignal
SpecKill == InitKill /\ [][NextKill]_vars

(***************************************************************************)
(* get_wsl_port_bindings, one wsl command per step.                        *)
(***************************************************************************)
DistroNames == {"Ubuntu", "docker-desktop", "Debian"}

\* the outcomes of wsl --list --running --quiet: failure, or the names it printed
DistroListings ==
    {[ok |-> FALSE, names |-> <<>>]}
        \cup [ok : {TRUE}, names : UNION {Orders(D) : D \in {E \in SUBSET DistroNames :
                                                                Cardinality(E) <= MaxDistros}}]

\* the outcomes of ss -tlnp inside a distro: the exit status, and the rows printed before it
SsOutcomes(distro) ==
    [ok : BOOLEAN, rows : SeqsUpTo({row \in WslPool : row.distro = distro}, MaxWsl)]

\* faulty variant of AfterDistro: a failed query ends the loop
AfterDistroBreak(ok, idx, n) == IF ok THEN idx + 1 ELSE n + 1

\* the position of the for loop after a distro: continue on failure, next iteration otherwise
AfterDistro(ok, idx, n) == idx + 1

\* a call of get_wsl_port_bindings(p): get_running_wsl_distros is awaited
SweepCall ==
    /\ pc = "idle"
    /\ \E p \in Ports : port' = p
    /\ pc' = "sweep_list"
    /\ UNCHANGED <<readerVars, scanVars, probeVars, suggestVars, killVars, hostVars, replayVars,
                   sweepVars, parseVars, fcVars, ssVars, pageVars>>

\* get_running_wsl_distros returned: an empty Vec when the command failed
SweepList ==
    /\ pc = "sweep_list"
    /\ \E listing \in DistroListings : distros_out' = listing
    /\ sweep_idx' = 1
    /\ sweep_acc' = <<>>
    /\ wsl_calls' = <<>>
    /\ ss_out' = <<>>
    /\ pc' = "sweep_loop"
    /\ UNCHANGED <<port, readerVars, scanVars, probeVars, suggestVars, killVars, hostVars,
                   replayVars, parseVars, fcVars, ssVars, pageVars>>

\* one iteration of the for loop: wsl -d distro -- ss -tlnp, then the rows of a successful run
SweepQuery ==
    /\ pc = "sweep_loop"
    /\ sweep_idx <= Len(distros_out.names)
    /\ LET distro == distros_out.names[sweep_idx]
       IN  /\ wsl_calls' = Append(wsl_calls, <<"wsl", "-d", distro, "--", "ss", "-tlnp">>)
           /\ \E out \in SsOutcomes(distro) :
                 /\ ss_out' = Append(ss_out, out)
                 /\ sweep_acc' = IF out.ok THEN sweep_acc \o get_wsl_port_bindings(port, out.rows)
                                  ELSE sweep_acc
                 /\ sweep_idx' = AfterDistro(out.ok, sweep_idx, Len(distros_out.names))
    /\ UNCHANGED <<pc, port, readerVars, scanVars, probeVars, suggestVars, killVars, hostVars,
                   replayVars, distros_out, parseVars, fcVars, ssVars, pageVars>>

\* the loop is over: bindings is returned
SweepReturn ==
    /\ pc = "sweep_loop"
    /\ sweep_idx > Len(distros_out.names)
    /\ pc' = "sweep_returned"
    /\ UNCHANGED <<port, readerVars, scanVars, probeVars, suggestVars, killVars, hostVars,
                   replayVars, sweepVars, parseVars, fcVars, ssVars, pageVars>>

InitSweep == Idle
NextSweep == SweepCall \/ SweepList \/ SweepQuery \/ SweepReturn
SpecSweep == InitSweep /\ [][NextSweep]_vars

(***************************************************************************)
(* get_docker_port_bindings on the text docker ps prints.                  *)
(***************************************************************************)
\* str::find: the position of the first occurrence of pat in s, 0 for None
Find(s, pat) ==
    LET hits == {i \in 1..(Len(s) - Len(pat) + 1) : SubSeq(s, i, i + Len(pat) - 1) = pat}
    IN  IF hits = {} THEN 0 ELSE CHOOSE i \in hits : \A j \in hits : i <= j

\* str::split(sep) collected
RECURSIVE Split(_, _)
Split(s, sep) ==
    LET at == Find(s, sep)
    IN  IF at = 0 THEN <<s>>
        ELSE <<SubSeq(s, 1, at - 1)>> \o Split(SubSeq(s, at + Len(sep), Len(s)), sep)

ParseErr == 0 - 1     \* str::parse::<u16>() = Err

\* the digits of s read from the left on top of acc; ParseErr on a non-digit or past u16::MAX
RECURSIVE Decimal(_, _)
Decimal(s, acc) ==
    IF s = "" THEN acc
    ELSE LET d == Find("0123456789", SubSeq(s, 1, 1)) - 1
         IN  IF d < 0 \/ acc * 10 + d > U16Max THEN ParseErr
             ELSE Decimal(SubSeq(s, 2, Len(s)), acc * 10 + d)

\* str::parse::<u16>(): an optional plus sign, then one or more digits
ParseU16(s) ==
    LET digits == IF Len(s) > 0 /\ SubSeq(s, 1, 1) = "+" THEN SubSeq(s, 2, Len(s)) ELSE s
    IN  IF digits = "" THEN ParseErr ELSE Decimal(digits, 0)

\* faulty variant of RSplitColonNext: the text before the first colon
SplitColonNext(s) == IF Colons(s) = {} THEN s ELSE SubSeq(s, 1, Min(Colons(s)) - 1)

\* s.rsplit(':').next(): the text after the last colon, all of s when it has none
RSplitColonNext(s) == IF Colons(s) = {} THEN s ELSE SubSeq(s, Max(Colons(s)) + 1, Len(s))

NoMapping == [some |-> FALSE, host_port |-> 0, container_port |-> 0, protocol |-> ""]
SomeMapping(h, c, proto) == [some |-> TRUE, host_port |-> h, container_port |-> c, protocol |-> proto]

parse_docker_port_mapping(mapping, target_port) ==
    LET arrow_pos == Find(mapping, "->")
        host_part == SubSeq(mapping, 1, arrow_pos - 1)
        container_part == SubSeq(mapping, arrow_pos + 2, Len(mapping))
        host_port == ParseU16(RSplitColonNext(host_part))
        slash_pos == Find(container_part, "/")
        container_port_str == IF slash_pos # 0 THEN SubSeq(container_part, 1, slash_pos - 1)
                              ELSE container_part
        protocol == IF slash_pos # 0 THEN SubSeq(container_part, slash_pos + 1, Len(container_part))
                    ELSE "tcp"
        container_port == ParseU16(container_port_str)
    IN  IF arrow_pos = 0 THEN NoMapping
        ELSE IF host_port = ParseErr THEN NoMapping
        ELSE IF host_port # target_port THEN NoMapping
        ELSE IF container_port = ParseErr THEN NoMapping
        ELSE SomeMapping(host_port, container_port, protocol)

\* the inner loop of get_docker_port_bindings over the entries of one ports field
RECURSIVE ParseEntries(_, _, _)
ParseEntries(parts, entries, p) ==
    IF entries = <<>> THEN <<>>
    ELSE LET parsed == parse_docker_port_mapping(Head(entries), p)
         IN  (IF parsed.some
                  THEN <<[container_id |-> parts[1], container_name |-> parts[2],
                          image |-> parts[3], host_port |-> parsed.host_port,
                          container_port |-> parsed.container_port,
                          protocol |-> parsed.protocol]>>
                  ELSE <<>>)
             \o ParseEntries(parts, Tail(entries), p)

\* the port mappings docker ps prints in the ports field
MappingTexts ==
    {"0.0.0.0:8080->80/tcp", ":::8080->80/tcp", "8080->3000", "0.0.0.0:9090->90/udp",
     "80/tcp", "0.0.0.0:8080->/tcp", "0.0.0.0:x->80/tcp", "0.0.0.0:8080-8081->80-81/tcp",
     "0.0.0.0:70000->80/tcp"}

\* the lines docker ps prints under the format of ports.rs:65
PsLines ==
    {"a1b2|web|nginx|" \o m : m \in MappingTexts}
        \cup {"a1b2|web|nginx|" \o m \o ", 0.0.0.0:8080->80/tcp" : m \in MappingTexts}
        \cup {"a1b2|web|nginx|:::8080->80/tcp, " \o m : m \in MappingTexts}
        \cup {"c3d4|api|node|", "c3d4|api|node|0.0.0.0:9090->90/udp, :::9090->90/udp",
              "c3d4|api", ""}

\* a call of get_docker_port_bindings(p): the docker ps command is awaited
PsCall ==
    /\ pc = "idle"
    /\ \E p \in Ports \cup {9090} : port' = p
    /\ pc' = "ps_run"
    /\ UNCHANGED <<readerVars, scanVars, probeVars, suggestVars, killVars, hostVars, replayVars,
                   sweepVars, parseVars, fcVars, ssVars, pageVars>>

\* docker ps failed: return Vec::new()
PsFailed ==
    /\ pc = "ps_run"
    /\ parse_acc' = <<>>
    /\ pc' = "ps_returned"
    /\ UNCHANGED <<port, readerVars, scanVars, probeVars, suggestVars, killVars, hostVars,
                   replayVars, sweepVars, ps_stdout, line_idx, fcVars, ssVars, pageVars>>

\* docker ps succeeded: its standard output is read line by line
PsOutput ==
    /\ pc = "ps_run"
    /\ \E lines \in SeqsUpTo(PsLines, MaxLines) : ps_stdout' = lines
    /\ line_idx' = 1
    /\ parse_acc' = <<>>
    /\ pc' = "ps_loop"
    /\ UNCHANGED <<port, readerVars, scanVars, probeVars, suggestVars, killVars, hostVars,
                   replayVars, sweepVars, fcVars, ssVars, pageVars>>

\* one iteration of the loop over the lines: split on '|', then every entry of the ports field
PsLine ==
    /\ pc = "ps_loop"
    /\ line_idx <= Len(ps_stdout)
    /\ LET parts == Split(ps_stdout[line_idx], "|")
       IN  parse_acc' = IF Len(parts) < 4 THEN parse_acc
                        ELSE parse_acc \o ParseEntries(parts, Split(parts[4], ", "), port)
    /\ line_idx' = line_idx + 1
    /\ UNCHANGED <<pc, port, readerVars, scanVars, probeVars, suggestVars, killVars, hostVars,
                   replayVars, sweepVars, ps_stdout, fcVars, ssVars, pageVars>>

\* the loop is over: bindings is returned
PsReturn ==
    /\ pc = "ps_loop"
    /\ line_idx > Len(ps_stdout)
    /\ pc' = "ps_returned"
    /\ UNCHANGED <<port, readerVars, scanVars, probeVars, suggestVars, killVars, hostVars,
                   replayVars, sweepVars, parseVars, fcVars, ssVars, pageVars>>

InitDockerPs == Idle
NextDockerPs == PsCall \/ PsFailed \/ PsOutput \/ PsLine \/ PsReturn
SpecDockerPs == InitDockerPs /\ [][NextDockerPs]_vars

(***************************************************************************)
(* get_wsl_port_bindings on the text ss -tlnp prints in one distro.        *)
(***************************************************************************)
IsWhitespace(c) == c = " " \/ c = "\t"

\* the position of the first character of s from position i on that is (or is not) whitespace,
\* Len(s) + 1 when there is none
NextAt(s, i, white) ==
    LET hits == {k \in i..Len(s) : IsWhitespace(SubSeq(s, k, k)) = white}
    IN  IF hits = {} THEN Len(s) + 1 ELSE CHOOSE k \in hits : \A j \in hits : k <= j

\* str::split_whitespace collected: the maximal runs of non-whitespace characters
RECURSIVE SplitWhitespace(_)
SplitWhitespace(s) ==
    LET from == NextAt(s, 1, FALSE)
        to == NextAt(s, from, TRUE)
    IN  IF from > Len(s) THEN <<>>
        ELSE <<SubSeq(s, from, to - 1)>> \o SplitWhitespace(SubSeq(s, to, Len(s)))

IsAsciiDigit(c) == Find("0123456789", c) # 0

\* pid_rest.find(|c: char| !c.is_ascii_digit()): position of the first non-digit, 0 for None
FindNonDigit(s) ==
    LET hits == {k \in 1..Len(s) : ~IsAsciiDigit(SubSeq(s, k, k))}
    IN  IF hits = {} THEN 0 ELSE CHOOSE k \in hits : \A j \in hits : k <= j

\* the digits of s read from the left on top of acc; ParseErr on a non-digit or past u32::MAX
\* (4294967295, compared before the multiplication)
RECURSIVE DecimalU32(_, _)
DecimalU32(s, acc) ==
    IF s = "" THEN acc
    ELSE LET d == Find("0123456789", SubSeq(s, 1, 1)) - 1
         IN  IF d < 0 \/ acc > 429496729 \/ (acc = 429496729 /\ d > 5) THEN ParseErr
             ELSE DecimalU32(SubSeq(s, 2, Len(s)), acc * 10 + d)

\* str::parse::<u32>(): an optional plus sign, then one or more digits
ParseU32(s) ==
    LET digits == IF Len(s) > 0 /\ SubSeq(s, 1, 1) = "+" THEN SubSeq(s, 2, Len(s)) ELSE s
    IN  IF digits = "" THEN ParseErr ELSE DecimalU32(digits, 0)

\* parse_ss_process_info: the name between ((" and the next quote, the digits after pid=
parse_ss_process_info(info) ==
    LET start == Find(info, "((\"")
        rest == SubSeq(info, start + 3, Len(info))
        end == Find(rest, "\"")
        process_name == SubSeq(rest, 1, end - 1)
        pid_start == Find(rest, "pid=")
        pid_rest == SubSeq(rest, pid_start + 4, Len(rest))
        pid_end == FindNonDigit(pid_rest)
        parsed == IF pid_end # 0 THEN ParseU32(SubSeq(pid_rest, 1, pid_end - 1))
                  ELSE ParseU32(pid_rest)
    IN  IF start = 0 \/ end = 0 THEN [process_name |-> "unknown", pid |-> 0]
        ELSE IF pid_start # 0 /\ parsed # ParseErr THEN [process_name |-> process_name, pid |-> parsed]
        ELSE [process_name |-> process_name, pid |-> 0]

\* faulty variant of parse_ss_line: a row without a readable process column is dropped
parse_ss_line_needs_process(line, target_port, distro) ==
    LET parts == SplitWhitespace(line)
        local_addr == parts[4]
        parsed == ParseU16(RSplitColonNext(local_addr))
        info == parse_ss_process_info(parts[Len(parts)])
    IN  IF Len(parts) < 5 THEN <<>>
        ELSE IF parsed = ParseErr THEN <<>>
        ELSE IF parsed # target_port THEN <<>>
        ELSE IF info.process_name = "unknown" THEN <<>>
        ELSE <<[distro |-> distro, process_name |-> info.process_name, pid |-> info.pid,
                port |-> parsed, local_addr |-> local_addr]>>

\* parse_ss_line: the Option<WslPortBinding> as a sequence of at most one record
parse_ss_line(line, target_port, distro) ==
    LET parts == SplitWhitespace(line)
        local_addr == parts[4]
        parsed == ParseU16(RSplitColonNext(local_addr))
        info == parse_ss_process_info(parts[Len(parts)])
    IN  IF Len(parts) < 5 THEN <<>>
        ELSE IF parsed = ParseErr THEN <<>>
        ELSE IF parsed # target_port THEN <<>>
        ELSE <<[distro |-> distro, process_name |-> info.process_name, pid |-> info.pid,
                port |-> parsed, local_addr |-> local_addr]>>

\* the header ss -tlnp prints first
SsHeader == "State  Recv-Q Send-Q  Local Address:Port   Peer Address:Port  Process"

\* what ss can print in the Local Address:Port column, and what other text can stand there
SsAddrTexts ==
    {"0.0.0.0:8080", "[::]:8080", "*:3000", "127.0.0.1:808", "0.0.0.0:80808", "Local", "[::1]:",
     "0.0.0.0:+8080", "8080"}

\* the columns after the local address: the peer address, then the process column
SsTails ==
    {<<>>,
     <<"0.0.0.0:*">>,
     <<"0.0.0.0:*", "users:((\"node\",pid=1234,fd=21))">>,
     <<"0.0.0.0:*", "users:((\"node\",fd=21))">>,
     <<"0.0.0.0:*", "users:((\"node\",pid=abc,fd=21))">>,
     <<"0.0.0.0:*", "users:((\"node\",pid=,fd=21))">>,
     <<"0.0.0.0:*", "users:((\"node\",pid=99999999999,fd=21))">>,
     <<"0.0.0.0:*", "users:((\"node\",pid=12ab,fd=21))">>,
     <<"0.0.0.0:*", "users:((\"node\",pid=1234">>,
     <<"0.0.0.0:*", "users:((\"node">>,
     <<"0.0.0.0:*", "users:(\"node\",pid=1234)">>,
     <<"[::]:*", "users:((\"nginx\",pid=77,fd=6),(\"nginx\",pid=78,fd=7))">>,
     <<"0.0.0.0:*", "users:((\"Web", "Content\",pid=9,fd=3))">>}

SsSeps == {" ", "   ", "\t"}

\* the rows of the model: every address with the usual columns, every tail after the usual
\* address, the wider separators with the usual row
SsRows ==
    {r \in [addr : SsAddrTexts, tail : SsTails, sep : SsSeps] :
        LET usual_tail == r.tail = <<"0.0.0.0:*", "users:((\"node\",pid=1234,fd=21))">>
            usual_addr == r.addr = "0.0.0.0:8080"
        IN  /\ usual_tail \/ usual_addr
            /\ r.sep # " " => usual_tail /\ usual_addr}

RECURSIVE Join(_, _)
Join(fields, sep) ==
    IF fields = <<>> THEN ""
    ELSE IF Len(fields) = 1 THEN fields[1]
    ELSE fields[1] \o sep \o Join(Tail(fields), sep)

\* the line ss prints for a row
SsText(r) == Join(<<"LISTEN", "0", "4096", r.addr>> \o r.tail, r.sep)

\* the lines after the header: rows, a line cut before the address column, an empty line
SsLines == {SsText(r) : r \in SsRows} \cup {"LISTEN 0 4096", ""}

\* one iteration of the loop over the distros: wsl -d <distro> -- ss -tlnp is awaited
SsCall ==
    /\ pc = "idle"
    /\ \E p \in Ports, d \in {"Ubuntu", "docker-desktop"} :
          /\ port' = p
          /\ ss_distro' = d
    /\ ss_acc' = <<>>
    /\ pc' = "ss_run"
    /\ UNCHANGED <<readerVars, scanVars, probeVars, suggestVars, killVars, hostVars, replayVars,
                   toolVars, ss_stdout, ss_idx, pageVars>>

\* the command could not be run or exited non-zero: continue with the next distro
SsFailed ==
    /\ pc = "ss_run"
    /\ pc' = "ss_done"
    /\ UNCHANGED <<port, readerVars, scanVars, probeVars, suggestVars, killVars, hostVars,
                   replayVars, toolVars, ssVars, pageVars>>

\* the command succeeded: stdout.lines().skip(1) leaves out the first line
SsOutput ==
    /\ pc = "ss_run"
    /\ \E lines \in SeqsUpTo(SsLines, MaxSsLines) : ss_stdout' = <<SsHeader>> \o lines
    /\ ss_idx' = 2
    /\ pc' = "ss_loop"
    /\ UNCHANGED <<port, readerVars, scanVars, probeVars, suggestVars, killVars, hostVars,
                   replayVars, toolVars, ss_distro, ss_acc, pageVars>>

\* one iteration of the loop over the lines: a parsed row is pushed
SsLine ==
    /\ pc = "ss_loop"
    /\ ss_idx <= Len(ss_stdout)
    /\ ss_acc' = ss_acc \o parse_ss_line(ss_stdout[ss_idx], port, ss_distro)
    /\ ss_idx' = ss_idx + 1
    /\ UNCHANGED <<pc, port, readerVars, scanVars, probeVars, suggestVars, killVars, hostVars,
                   replayVars, toolVars, ss_distro, ss_stdout, pageVars>>

\* the lines are exhausted: the distro is done
SsEnd ==
    /\ pc = "ss_loop"
    /\ ss_idx > Len(ss_stdout)
    /\ pc' = "ss_done"
    /\ UNCHANGED <<port, readerVars, scanVars, probeVars, suggestVars, killVars, hostVars,
                   replayVars, toolVars, ssVars, pageVars>>

InitSs == Idle
NextSs == SsCall \/ SsFailed \/ SsOutput \/ SsLine \/ SsEnd
SpecSs == InitSs /\ [][NextSs]_vars

(***************************************************************************)
(* force_close_socket and the on_force_close handler of the ports page.    *)
(***************************************************************************)
\* lines netsh http show urlacl / servicestate can print
NetshLines ==
    {"    Reserved URL            : http://+:8080/",
     "    Reserved URL            : http://+:80/Temporary_Listen_Addresses/",
     "        HTTP://LOCALHOST:3000/",
     "            SDDL: D:(A;;GX;;;WD)"}

\* the outcomes of a netsh query: the command could not be started, or it ran and printed lines
NetshOutcomes ==
    {[executed |-> FALSE, lines |-> <<>>]}
        \cup [executed : {TRUE}, lines : SeqsUpTo(NetshLines, MaxNetshLines)]

\* format!(":{}", binding.local_port)
port_str(b) == ":" \o ToString(b.local_port)

\* the matching_lines of one query, empty when the command could not be started
matching_lines(out, b) ==
    IF out.executed THEN SelectSeq(out.lines, LAMBDA line : Contains(line, port_str(b))) ELSE <<>>

\* faulty variant of force_close_result: Ok only when both queries found the port
force_close_result_both(diags) ==
    IF Len(diags) = 2 THEN [ok |-> TRUE, msg |-> "This appears to be an http.sys managed socket"]
    ELSE [ok |-> FALSE, msg |-> "Cannot programmatically close orphaned socket"]

\* the Result force_close_socket builds from the diagnostics Vec
force_close_result(diags) ==
    IF diags # <<>> THEN [ok |-> TRUE, msg |-> "This appears to be an http.sys managed socket"]
    ELSE [ok |-> FALSE, msg |-> "Cannot programmatically close orphaned socket"]

\* the exit codes of a CommandOutput: 0, a failure status, or -1 when run_command could not spawn
ExitCodes == {0, 2, 0 - 1}

\* faulty variant of attempts_restart: the restart only follows a positive diagnosis
attempts_restart_when_found(admin, found) == admin /\ found

\* whether on_force_close calls restart_http_service in the branch it took
attempts_restart(admin, found) == admin

\* restart_result.iter().all(|o| o.succeeded())
restart_ok(log) ==
    \A i \in 1..Len(log) : log[i].op \in {"net stop http /y", "net start http"} => log[i].arg = 0

\* the ports of the bindings Force Close is clicked on: the scanned ports and the HTTP port
FcPorts == Ports \cup {80}

\* a socket table whose one entry is a listener on the HTTP port
HttpSocketTable ==
    [ok |-> TRUE,
     entries |-> <<[proto |-> "Tcp", local_port |-> 80, local_addr |-> "0.0.0.0",
                    associated_pids |-> <<7>>, state |-> "Listen"]>>]

\* what the sources return to a rescan made by a handler
RescanEnvs ==
    [socks : {t \in ScanSocketTables : Len(t.entries) <= 1} \cup {HttpSocketTable},
     snapshot : ScanSnapshots,
     in_use : BOOLEAN, info : {"exit_nonzero"}, ps : {[ok |-> FALSE, mappings |-> <<>>]},
     rows : {<<>>}]

\* the results a whole call of list_bindings_enhanced(p) can return when the sources return env
list_bindings_enhanced(p, env) ==
    {LET dbs == IF is_docker_running(env.info) THEN get_docker_port_bindings(p, env.ps) ELSE <<>>
         wbs == get_wsl_port_bindings(p, env.rows)
         merged == r.bindings \o MapDocker(dbs) \o MergeWsl(dbs # <<>>, wbs)
         shadow == ShadowVerdict(env.in_use, r.bindings # <<>>, dbs, wbs)
     IN  [r EXCEPT !.bindings = IF shadow THEN Append(merged, ShadowBinding(p)) ELSE merged,
                   !.docker_bindings = dbs,
                   !.wsl_bindings = wbs,
                   !.shadow_detected = shadow] : r \in list_bindings(p, env.socks, env.snapshot)}

ScanResultsOf(p) == UNION {list_bindings_enhanced(p, env) : env \in RescanEnvs}

\* the scan results that show an orphaned binding, whose row carries the Force Close button
OrphanRows(res) == {i \in 1..Len(res.bindings) : res.bindings[i].is_orphan}

\* a click on Force Close in the row of an orphaned binding of the displayed scan:
\* the status is reset and force_close_socket is awaited
FcClick ==
    /\ pc = "idle"
    /\ \E p \in FcPorts, admin \in BOOLEAN :
          \E res \in ScanResultsOf(p) :
             \E i \in OrphanRows(res) :
                /\ scan_result' = res
                /\ port_input' = p
                /\ binding' = [local_port |-> res.bindings[i].local_port, pid |-> res.bindings[i].pid]
                /\ is_admin' = admin
    /\ status_type' = ""
    /\ netsh' = <<>>
    /\ diagnostics' = <<>>
    /\ effects' = <<>>
    /\ pc' = "fc_urlacl"
    /\ UNCHANGED <<port, readerVars, scanVars, probeVars, suggestVars, killVars, hostVars,
                   replayVars, sweepVars, parseVars, fc_ret, ssVars, pageVars>>

\* the user types another port into the input while the handler is suspended
PortInputEdit ==
    /\ pc \in {"fc_urlacl", "fc_servicestate", "fc_returned", "fc_net_start",
                "fc_rescan"}
    /\ \E p \in Ports : p # port_input /\ port_input' = p
    /\ UNCHANGED <<port, readerVars, scanVars, probeVars, suggestVars, killVars, hostVars,
                   replayVars, sweepVars, parseVars, pc, binding, is_admin, scan_result, status_type,
                   netsh, diagnostics, fc_ret, effects, ssVars, pageVars>>

\* netsh http show urlacl returned
FcUrlacl ==
    /\ pc = "fc_urlacl"
    /\ \E out \in NetshOutcomes :
          /\ netsh' = Append(netsh, [args |-> <<"http", "show", "urlacl">>,
                                     executed |-> out.executed, lines |-> out.lines])
          /\ diagnostics' =
                IF matching_lines(out, binding) # <<>>
                    THEN Append(diagnostics, [found |-> "http.sys URL reservations",
                                              lines |-> matching_lines(out, binding)])
                    ELSE diagnostics
    /\ pc' = "fc_servicestate"
    /\ UNCHANGED <<port, readerVars, scanVars, probeVars, suggestVars, killVars, hostVars,
                   replayVars, sweepVars, parseVars, binding, is_admin, port_input, scan_result,
                   status_type, fc_ret, effects, ssVars, pageVars>>

\* netsh http show servicestate view=requestq returned; force_close_socket returns
FcServicestate ==
    /\ pc = "fc_servicestate"
    /\ \E out \in NetshOutcomes :
          LET diags == IF matching_lines(out, binding) # <<>>
                           THEN Append(diagnostics, [found |-> "http.sys active listeners",
                                                     lines |-> matching_lines(out, binding)])
                           ELSE diagnostics
          IN  /\ netsh' = Append(netsh, [args |-> <<"http", "show", "servicestate", "view=requestq">>,
                                         executed |-> out.executed, lines |-> out.lines])
              /\ diagnostics' = diags
              /\ fc_ret' = force_close_result(diags)
    /\ pc' = "fc_returned"
    /\ UNCHANGED <<port, readerVars, scanVars, probeVars, suggestVars, killVars, hostVars,
                   replayVars, sweepVars, parseVars, binding, is_admin, port_input, scan_result,
                   status_type, effects, ssVars, pageVars>>

\* the match on the result when no restart follows: a warning and the rescan after Ok,
\* an error and the end of the handler after Err
FcNoRestart ==
    /\ pc = "fc_returned"
    /\ ~attempts_restart(is_admin, fc_ret.ok)
    /\ IF fc_ret.ok
          THEN /\ status_type' = "warning"
               /\ effects' = Append(effects, [op |-> "sleep", arg |-> 500])
               /\ pc' = "fc_rescan"
          ELSE /\ status_type' = "error"
               /\ effects' = effects
               /\ pc' = "fc_done"
    /\ UNCHANGED <<port, readerVars, scanVars, probeVars, suggestVars, killVars, hostVars,
                   replayVars, sweepVars, parseVars, binding, is_admin, port_input, scan_result,
                   netsh, diagnostics, fc_ret, ssVars, pageVars>>

\* restart_http_service is called: net stop http /y, then the sleep before net start
FcNetStop ==
    /\ pc = "fc_returned"
    /\ attempts_restart(is_admin, fc_ret.ok)
    /\ \E code \in ExitCodes :
          effects' = effects \o <<[op |-> "net stop http /y", arg |-> code],
                                  [op |-> "sleep", arg |-> 500]>>
    /\ pc' = "fc_net_start"
    /\ UNCHANGED <<port, readerVars, scanVars, probeVars, suggestVars, killVars, hostVars,
                   replayVars, sweepVars, parseVars, binding, is_admin, port_input, scan_result,
                   status_type, netsh, diagnostics, fc_ret, ssVars, pageVars>>

\* net start http returned and with it restart_http_service; after Ok the status tells how
\* the restart went; the sleep before the rescan follows in both branches
FcNetStart ==
    /\ pc = "fc_net_start"
    /\ \E code \in ExitCodes :
          LET log == Append(effects, [op |-> "net start http", arg |-> code])
          IN  /\ effects' = Append(log, [op |-> "sleep", arg |-> 500])
              /\ status_type' = IF fc_ret.ok
                                    THEN (IF restart_ok(log) THEN "success" ELSE "warning")
                                    ELSE status_type
    /\ pc' = "fc_rescan"
    /\ UNCHANGED <<port, readerVars, scanVars, probeVars, suggestVars, killVars, hostVars,
                   replayVars, sweepVars, parseVars, binding, is_admin, port_input, scan_result,
                   netsh, diagnostics, fc_ret, ssVars, pageVars>>

\* list_bindings_enhanced(state().port_input) returned and its result is written to
\* scan_result; after Err the status tells whether the orphan is gone
FcRescan ==
    /\ pc = "fc_rescan"
    /\ \E scan \in ScanResultsOf(port_input) :
          /\ scan_result' = scan
          /\ status_type' = IF fc_ret.ok THEN status_type
                            ELSE IF restart_ok(effects) /\ OrphanRows(scan) = {} THEN "success"
                            ELSE "error"
    /\ effects' = effects \o <<[op |-> "list_bindings_enhanced", arg |-> port_input],
                                [op |-> "write scan_result", arg |-> port_input]>>
    /\ pc' = "fc_done"
    /\ UNCHANGED <<port, readerVars, scanVars, probeVars, suggestVars, killVars, hostVars,
                   replayVars, sweepVars, parseVars, binding, is_admin, port_input, netsh, diagnostics,
                   fc_ret, ssVars, pageVars>>

InitForceClose == Idle
NextForceClose ==
    \/ FcClick \/ PortInputEdit \/ FcUrlacl \/ FcServicestate
    \/ FcNoRestart \/ FcNetStop \/ FcNetStart \/ FcRescan
SpecForceClose == InitForceClose /\ [][NextForceClose]_vars

(***************************************************************************)
(* The ports page: the Scan, Kill, Force Close and Clear handlers and the  *)
(* tasks they spawn.                                                       *)
(***************************************************************************)
\* PortsPageState::new()
InitialPortInput == 3010

\* what the sources return to the calls of list_bindings_enhanced the page makes: nothing;
\* a listener of PID 7, alive or gone; a listener of the System process; a port that cannot
\* be bound; a container of Docker and a process of WSL
PageEnvs ==
    LET quiet == [socks |-> [ok |-> TRUE, entries |-> <<>>], snapshot |-> {4, 7, 9}, in_use |-> FALSE,
                  info |-> "exit_nonzero", ps |-> [ok |-> FALSE, mappings |-> <<>>], rows |-> <<>>]
        one(addr, p) == [ok |-> TRUE,
                         entries |-> <<[proto |-> "Tcp", local_port |-> 8080, local_addr |-> addr,
                                        associated_pids |-> <<p>>, state |-> "Listen"]>>]
    IN  {quiet,
         [quiet EXCEPT !.socks = one("0.0.0.0", 7)],
         [quiet EXCEPT !.socks = one("0.0.0.0", 7), !.snapshot = {}],
         [quiet EXCEPT !.socks = one("0.0.0.0", 4), !.snapshot = {}],
         [quiet EXCEPT !.in_use = TRUE],
         [quiet EXCEPT !.info = "exit_zero",
                       !.ps = [ok |-> TRUE, mappings |-> <<CHOOSE m \in DockerPool : m.host_port = 8080>>],
                       !.rows = <<CHOOSE row \in WslPool : row.pid = 1234 /\ row.local_addr = "0.0.0.0:8080">>]}

\* the results a call of list_bindings_enhanced(p) made by the page can return, for each port
\* the port field can hold
PageResults ==
    [p \in Ports \cup {InitialPortInput} |-> UNION {list_bindings_enhanced(p, env) : env \in PageEnvs}]

\* the status_type on_scan sets for the result it stores
ScanStatus(r) ==
    IF r.bindings = <<>> THEN "success"
    ELSE IF r.shadow_detected THEN "warning"
    ELSE IF r.docker_bindings # <<>> \/ r.wsl_bindings # <<>> THEN "info"
    ELSE IF r.orphan_pids # <<>> THEN "warning"
    ELSE IF r.conflict_pids # <<>> THEN "warning"
    ELSE ""

\* faulty variant of row_action: a system process gets the Kill button
row_action_kill_system(b) ==
    IF b.source # "Windows" THEN "hint"
    ELSE IF b.is_orphan THEN "force_close"
    ELSE "kill"

\* the last cell of a PortRow: a hint for Docker, WSL and shadow rows; for a Windows row the
\* Force Close button, the System label or the Kill button
row_action(b) ==
    IF b.source # "Windows" THEN "hint"
    ELSE IF b.is_orphan THEN "force_close"
    ELSE IF b.is_system THEN "system"
    ELSE "kill"

\* faulty variant of Stored: the bindings of the new result are appended to the displayed ones
StoredAppending(old, new) == [new EXCEPT !.bindings = old.bindings \o new.bindings]

\* state.write().scan_result = result
Stored(old, new) == new

\* faulty variant of ScanningAfter: every stored result ends the scanning state
ScanningAfterAnyStore(kind, scanning) == FALSE

\* is_scanning after a task has stored its result: only on_scan writes it
ScanningAfter(kind, scanning) == IF kind = "scan" THEN FALSE ELSE scanning

\* a spawned handler: its kind, where it is suspended, the port and the row it captured,
\* whether its call of list_bindings_enhanced is the one started last, the outcome of its
\* diagnosis and restart
Task(kind, at, p, row, newest) ==
    [kind |-> kind, pc |-> at, port |-> p, row |-> row, newest |-> newest,
     diag_ok |-> TRUE, restart_ok |-> TRUE]

\* the suspended handlers form a bag: the executor keeps no order among them
Spawned(t) == tasks (+) SetToBag({t})
Ended(t) == tasks (-) SetToBag({t})
Resumed(t, u) == Ended(t) (+) SetToBag({u})

\* the handlers once another call of list_bindings_enhanced has started
Older(bag) ==
    LET aged(t) == [t EXCEPT !.newest = FALSE]
    IN  BagOfAll(aged, bag)

\* the handlers that have not yet made the call of list_bindings_enhanced they may make
Waiting == BagCardinality(tasks) -
           BagCardinality([t \in {u \in BagToSet(tasks) : u.pc \in {"scanning", "hung"}} |-> tasks[t]])

\* room for one more handler and one more call
MaySpawn == BagCardinality(tasks) < MaxTasks /\ scan_calls + Waiting < MaxCalls

\* the ports page is opened: PortsPageState::new(), is_admin from is_elevated()
PageOpen ==
    /\ pc = "idle"
    /\ pc' = "page"
    /\ port_input' = InitialPortInput
    /\ \E admin \in BOOLEAN : is_admin' = admin
    /\ UNCHANGED <<port, readerVars, scanVars, probeVars, suggestVars, killVars, hostVars,
                   replayVars, sweepVars, parseVars, ssVars, pageVars, binding, scan_result,
                   status_type, netsh, diagnostics, fc_ret, effects>>

\* oninput of the port field
PageEdit ==
    /\ pc = "page"
    /\ \E p \in Ports : p # port_input /\ port_input' = p
    /\ UNCHANGED <<pc, port, readerVars, scanVars, probeVars, suggestVars, killVars, hostVars,
                   replayVars, sweepVars, parseVars, ssVars, pageVars, binding, is_admin,
                   scan_result, status_type, netsh, diagnostics, fc_ret, effects>>

\* on_scan: the button is enabled only while is_scanning is false; the spawned task calls
\* list_bindings_enhanced(port)
ScanClick ==
    /\ pc = "page"
    /\ ~is_scanning
    /\ MaySpawn
    /\ is_scanning' = TRUE
    /\ status_type' = ""
    /\ scan_calls' = scan_calls + 1
    /\ tasks' = Older(tasks) (+) SetToBag({Task("scan", "scanning", port_input, <<>>, TRUE)})
    /\ UNCHANGED <<pc, port, readerVars, scanVars, probeVars, suggestVars, killVars, hostVars,
                   replayVars, sweepVars, parseVars, ssVars, binding, is_admin, port_input,
                   scan_result, netsh, diagnostics, fc_ret, effects, shown, latest>>

\* on_kill from the Kill button of a displayed row: port_input is read, the task is spawned
KillClick ==
    /\ pc = "page"
    /\ MaySpawn
    /\ \E i \in 1..Len(scan_result.bindings) :
          /\ row_action(scan_result.bindings[i]) = "kill"
          /\ tasks' = Spawned(Task("kill", "kill", port_input, <<scan_result.bindings[i]>>, FALSE))
    /\ UNCHANGED <<pc, port, readerVars, scanVars, probeVars, suggestVars, killVars, hostVars,
                   replayVars, sweepVars, parseVars, ssVars, fcVars, is_scanning, scan_calls,
                   shown, latest>>

\* the kill task runs kill_process(pid): after Ok the status and the sleep before the rescan,
\* after Err the status and the end of the task
KillRun(t) ==
    /\ pc = "page"
    /\ t.pc = "kill"
    /\ \E ok \in BOOLEAN :
          IF ok THEN /\ status_type' = "success"
                     /\ tasks' = Resumed(t, [t EXCEPT !.pc = "sleep"])
                ELSE /\ status_type' = "error"
                     /\ tasks' = Ended(t)
    /\ UNCHANGED <<pc, port, readerVars, scanVars, probeVars, suggestVars, killVars, hostVars,
                   replayVars, sweepVars, parseVars, ssVars, binding, is_admin, port_input,
                   scan_result, netsh, diagnostics, fc_ret, effects, is_scanning, scan_calls,
                   shown, latest>>

\* on_force_close from the Force Close button of a displayed row: the task resets the status
\* and awaits force_close_socket(&binding)
ForceCloseClick ==
    /\ pc = "page"
    /\ MaySpawn
    /\ \E i \in 1..Len(scan_result.bindings) :
          /\ row_action(scan_result.bindings[i]) = "force_close"
          /\ tasks' = Spawned(Task("force_close", "diagnose", port_input,
                                         <<scan_result.bindings[i]>>, FALSE))
    /\ status_type' = ""
    /\ UNCHANGED <<pc, port, readerVars, scanVars, probeVars, suggestVars, killVars, hostVars,
                   replayVars, sweepVars, parseVars, ssVars, binding, is_admin, port_input,
                   scan_result, netsh, diagnostics, fc_ret, effects, is_scanning, scan_calls,
                   shown, latest>>

\* force_close_socket returned and, for an elevated caller, restart_http_service after it:
\* the status of the Ok branch, the end of the task in the Err branch of a caller that is
\* not elevated, the sleep before the rescan otherwise
Diagnosed(t) ==
    /\ pc = "page"
    /\ t.pc = "diagnose"
    /\ \E ok \in BOOLEAN, rok \in {r \in BOOLEAN : ~is_admin => r} :
          IF ~ok /\ ~attempts_restart(is_admin, ok)
             THEN /\ status_type' = "error"
                  /\ tasks' = Ended(t)
             ELSE /\ status_type' = IF ~ok THEN status_type
                                    ELSE IF is_admin /\ rok THEN "success" ELSE "warning"
                  /\ tasks' = Resumed(t, [t EXCEPT !.pc = "sleep", !.diag_ok = ok,
                                                   !.restart_ok = rok])
    /\ UNCHANGED <<pc, port, readerVars, scanVars, probeVars, suggestVars, killVars, hostVars,
                   replayVars, sweepVars, parseVars, ssVars, binding, is_admin, port_input,
                   scan_result, netsh, diagnostics, fc_ret, effects, is_scanning, scan_calls,
                   shown, latest>>

\* the sleep is over and the rescan is called: on_kill with the port it read at the click,
\* on_force_close with state().port_input
RescanCall(t) ==
    /\ pc = "page"
    /\ t.pc = "sleep"
    /\ scan_calls' = scan_calls + 1
    /\ tasks' = Older(Ended(t)) (+)
                 SetToBag({[t EXCEPT !.pc = "scanning",
                                     !.port = IF t.kind = "kill" THEN @ ELSE port_input,
                                     !.newest = TRUE]})
    /\ UNCHANGED <<pc, port, readerVars, scanVars, probeVars, suggestVars, killVars, hostVars,
                   replayVars, sweepVars, parseVars, ssVars, fcVars, is_scanning,
                   shown, latest>>

\* list_bindings_enhanced returned to a task, which stores the result: on_scan clears
\* is_scanning and sets the status, on_kill only stores, the Err branch of on_force_close
\* tells whether the orphan is gone
ScanReturn(t) ==
    /\ pc = "page"
    /\ t.pc = "scanning"
    /\ \E r \in PageResults[t.port] :
          /\ scan_result' = Stored(scan_result, r)
          /\ status_type' =
                CASE t.kind = "scan" -> ScanStatus(r)
                  [] t.kind = "kill" -> status_type
                  [] OTHER -> IF t.diag_ok THEN status_type
                              ELSE IF t.restart_ok /\ OrphanRows(r) = {} THEN "success"
                              ELSE "error"
          /\ latest' = IF t.newest THEN r ELSE latest
    /\ is_scanning' = ScanningAfter(t.kind, is_scanning)
    /\ shown' = TRUE
    /\ tasks' = Ended(t)
    /\ UNCHANGED <<pc, port, readerVars, scanVars, probeVars, suggestVars, killVars, hostVars,
                   replayVars, sweepVars, parseVars, ssVars, binding, is_admin, port_input,
                   netsh, diagnostics, fc_ret, effects, scan_calls>>

\* one of the commands list_bindings_enhanced awaits (docker info, docker ps, wsl --list,
\* wsl ss) never returns: no timeout ends the await
ScanHang(t) ==
    /\ pc = "page"
    /\ t.pc = "scanning"
    /\ tasks' = Resumed(t, [t EXCEPT !.pc = "hung"])
    /\ UNCHANGED <<pc, port, readerVars, scanVars, probeVars, suggestVars, killVars, hostVars,
                   replayVars, sweepVars, parseVars, ssVars, fcVars, is_scanning, scan_calls,
                   shown, latest>>

\* on_clear: the default result, an empty status
Clear ==
    /\ pc = "page"
    /\ scan_result' = DefaultPortScanResult
    /\ status_type' = ""
    /\ shown' = FALSE
    /\ UNCHANGED <<pc, port, readerVars, scanVars, probeVars, suggestVars, killVars, hostVars,
                   replayVars, sweepVars, parseVars, ssVars, binding, is_admin, port_input,
                   netsh, diagnostics, fc_ret, effects, tasks, is_scanning, scan_calls,
                   latest>>

\* a step of one of the spawned tasks
TaskStep == \E t \in BagToSet(tasks) : KillRun(t) \/ Diagnosed(t) \/ RescanCall(t) \/ ScanHang(t)

\* the task of the Scan button gets its result
ButtonScanReturn == \E t \in BagToSet(tasks) : t.kind = "scan" /\ ScanReturn(t)

\* a rescan of on_kill or on_force_close gets its result
RescanReturn == \E t \in BagToSet(tasks) : t.kind # "scan" /\ ScanReturn(t)

InitPage == Idle
NextPage ==
    \/ PageOpen \/ PageEdit \/ ScanClick \/ KillClick \/ ForceCloseClick \/ Clear
    \/ TaskStep \/ ButtonScanReturn \/ RescanReturn
SpecPage == InitPage /\ [][NextPage]_vars

\* the executor polls a task whose await has completed: a scan whose commands all return is
\* resumed with its result
SpecPageFair == SpecPage /\ WF_vars(ButtonScanReturn)

(***************************************************************************)
(* Properties of list_bindings, stated over the socket table it was given. *)
(***************************************************************************)
LoopbackAddrs == {"127.0.0.1", "127.5.0.1", "::1"}
WildcardAddrs == {"0.0.0.0", "::"}

Owner(socket) == IF socket.associated_pids = <<>> THEN 0 ELSE socket.associated_pids[1]

\* indices of the socket-table entries of this call that are TCP entries on the scanned port
Matching == {i \in 1..Len(sockets.entries) :
                sockets.entries[i].proto = "Tcp" /\ sockets.entries[i].local_port = port}

OwnedIn(p, A) == \E i \in Matching : Owner(sockets.entries[i]) = p /\ sockets.entries[i].local_addr \in A

Occurrences(q, x) == Cardinality({i \in 1..Len(q) : q[i] = x})

\* C5: conflict_pids returned by list_bindings is exactly the set of PIDs that own at least
\* one loopback entry and at least one all-interfaces entry on the scanned port.
C5_ConflictPids ==
    pc = "returned" =>
        SeqToSet(result.conflict_pids) =
            IF sockets.ok THEN {p \in Pids : OwnedIn(p, LoopbackAddrs) /\ OwnedIn(p, WildcardAddrs)} ELSE {}

C5_Witness ==
    /\ pc = "returned"
    /\ result.conflict_pids = <<7>>
    /\ Len(result.bindings) = 2

\* C6: a Windows-stack entry is an orphan iff its PID is neither 0 nor 4 and is absent from the
\* snapshot of the call, and then its PID is in orphan_pids; PID 0 and 4 are system, never orphan,
\* and never in orphan_pids, whatever the snapshot holds.
C6_OrphanDetection ==
    pc = "returned" =>
        /\ \A i \in 1..Len(result.bindings) :
              LET b == result.bindings[i]
              IN  /\ b.is_orphan = (b.pid \notin {0, 4} /\ b.pid \notin sys)
                  /\ b.is_orphan => b.pid \in SeqToSet(result.orphan_pids)
                  /\ b.pid \in {0, 4} => b.is_system /\ ~b.is_orphan
        /\ 0 \notin SeqToSet(result.orphan_pids)
        /\ 4 \notin SeqToSet(result.orphan_pids)
        /\ \A p \in SeqToSet(result.orphan_pids) :
              \E i \in Matching : Owner(sockets.entries[i]) = p /\ p \notin sys

C6_Witness ==
    /\ pc = "returned"
    /\ 4 \notin sys
    /\ \E i, j \in 1..Len(result.bindings) :
          /\ result.bindings[i].pid = 4 /\ result.bindings[i].is_system
          /\ result.bindings[j].is_orphan /\ result.bindings[j].pid = 9

WindowsEmpty == ~sockets.ok \/ Matching = {}

WithSource(bindings, src) == {i \in 1..Len(bindings) : bindings[i].source = src}

\* C1: shadow_detected is true iff the probe reported in use and the Windows reader, the raw
\* Docker result and the raw WSL result are all empty.
C1_ShadowIff ==
    pc = "scanned" =>
        result.shadow_detected =
            (port_in_use /\ WindowsEmpty /\ result.docker_bindings = <<>> /\ result.wsl_bindings = <<>>)

C1_Witness ==
    /\ pc = "scanned"
    /\ result.shadow_detected
    /\ port_in_use

\* C2: a scan result holds exactly one UnknownShadow binding when shadow_detected and none
\* otherwise; when shadow_detected the list is that placeholder alone.
C2_ShadowPlaceholder ==
    pc = "scanned" =>
        /\ Cardinality(WithSource(result.bindings, "UnknownShadow")) = IF result.shadow_detected THEN 1 ELSE 0
        /\ result.shadow_detected =>
              /\ Len(result.bindings) = 1
              /\ result.bindings[1].source = "UnknownShadow"
              /\ result.bindings[1].pid = 0
              /\ result.bindings[1].local_port = port
              /\ result.bindings[1].state = "UNKNOWN"
              /\ result.bindings[1].local_ip = "?"
              /\ result.bindings[1].is_all_interfaces
              /\ ~result.bindings[1].is_loopback

C2_Witness ==
    /\ pc = "scanned"
    /\ result.shadow_detected
    /\ Len(result.bindings) = 1
    /\ result.bindings[1].local_port = port

\* C3: the binding list of a scan is empty iff the probe reports free and all three sources
\* return nothing; a port the probe reports in use never has an empty list.
C3_EmptyIff ==
    pc = "scanned" =>
        /\ (result.bindings = <<>>) =
              (~port_in_use /\ WindowsEmpty /\ result.docker_bindings = <<>> /\ result.wsl_bindings = <<>>)
        /\ port_in_use => result.bindings # <<>>
        /\ result.bindings = <<>> => ~result.shadow_detected

\* the probe says in use while every WSL record was suppressed by the deduplication
C3_Witness ==
    /\ pc = "scanned"
    /\ port_in_use
    /\ result.wsl_bindings # <<>>
    /\ WithSource(result.bindings, "Wsl") = {}

DockerLikeNames == {"com.docker.backend", "containerd-shim", "dockerd"}

\* the WSL records of this scan that the deduplication rule lets through
KeptWsl == {i \in 1..Len(result.wsl_bindings) :
               ~(result.docker_bindings # <<>> /\ result.wsl_bindings[i].process_name \in DockerLikeNames)}

ShowsWsl(b, wb) ==
    /\ b.source = "Wsl"
    /\ b.pid = wb.pid
    /\ b.source_detail = wb.distro
    /\ b.process_name = wb.process_name \o " [WSL:" \o wb.distro \o "]"

AddrInUse(o) == ~o.ok /\ o.raw_os_error = 10048

\* the families whose bind is conclusive: it succeeds, or fails with address-in-use
Conclusive == {k \in 1..Len(addrs) : outcomes[k].ok \/ AddrInUse(outcomes[k])}

\* C8: the probe binds the IPv4 wildcard then the IPv6 wildcard and stops at the first
\* conclusive bind: true iff an address-in-use failure comes before any successful bind;
\* no listener is held once it has returned.
C8_ProbeFirstConclusive ==
    pc = "probe_returned" =>
        /\ probe_ret = (\E k \in 1..Len(addrs) : AddrInUse(outcomes[k]) /\ \A j \in 1..(k - 1) : ~outcomes[j].ok)
        /\ attempts = SubSeq(<<"0.0.0.0", "::">>, 1, Len(attempts))
        /\ Len(attempts) = IF Conclusive = {} THEN 2 ELSE Min(Conclusive)
        /\ listener = "none"
        /\ probe_ret = probe_port_in_use(outcomes)

\* a non-conclusive IPv4 failure followed by address-in-use on IPv6
C8_Witness ==
    /\ pc = "probe_returned"
    /\ probe_ret
    /\ attempts = <<"0.0.0.0", "::">>
    /\ ~outcomes[1].ok

SpanOf(r) == IF r.first > r.last THEN 0 ELSE r.last - r.first + 1

C9_Search ==
    /\ \A i \in 1..Len(probed) :
          /\ probed[i].port = range.first + i - 1
          /\ probed[i].port <= range.last
          /\ i < Len(probed) => probed[i].in_use
    /\ pc = "suggest_returned" =>
          /\ suggest_ret.some =>
                /\ probed # <<>>
                /\ suggest_ret.value = probed[Len(probed)].port
                /\ ~probed[Len(probed)].in_use
                /\ range.first <= suggest_ret.value /\ suggest_ret.value <= range.last
          /\ ~suggest_ret.some =
                (Len(probed) = SpanOf(range) /\ \A i \in 1..Len(probed) : probed[i].in_use)

\* C9: suggest_free_port probes the ports of start..=end in ascending order, returns the first
\* one the probe reports free and None exactly when all of them (possibly none) are in use;
\* the search ends, also when end = 65535.
C9_SuggestFreePort == []C9_Search /\ ((pc = "suggest_loop") ~> (pc = "suggest_returned"))

\* the whole range up to 65535 is in use
C9_Witness ==
    /\ pc = "suggest_returned"
    /\ ~suggest_ret.some
    /\ range.last = 65535
    /\ Len(probed) >= 2

(***************************************************************************)
(* Properties of kill_process.                                             *)
(***************************************************************************)
Calls(log) == [i \in 1..Len(log) |-> log[i].call]

\* C10: kill_process(0) returns an error before any snapshot or kill; for another PID it returns
\* Ok only when the PID was in the fresh snapshot and the kill succeeded, and an error otherwise.
C10_Kill ==
    /\ pid = 0 => kill_log = <<>>
    /\ pc = "kill_returned" =>
          /\ pid = 0 => ~kill_ret.ok /\ kill_ret.msg = "Cannot kill PID 0"
          /\ pid # 0 =>
                /\ kill_log # <<>> /\ kill_log[1].call = "refresh_processes"
                /\ kill_ret.ok =
                      (pid \in sys /\ Calls(kill_log) = <<"refresh_processes", "kill">> /\ kill_log[2].ok)
                /\ (~kill_ret.ok /\ kill_ret.msg = "Process {} not found") = (pid \notin sys)
                /\ pid \notin sys => Calls(kill_log) = <<"refresh_processes">>
                /\ (~kill_ret.ok /\ kill_ret.msg = "Failed to kill process {}") =
                      (pid \in sys /\ Calls(kill_log) = <<"refresh_processes", "kill">> /\ ~kill_log[2].ok)
                /\ ~kill_ret.ok => kill_ret.arg = pid

\* PID 0 is rejected although the host lists a process 0
C10_Witness ==
    /\ pc = "kill_returned"
    /\ pid = 0
    /\ 0 \in procs
    /\ ~kill_ret.ok
    /\ kill_log = <<>>

(***************************************************************************)
(* Order of the scan, failing sources, flags per source.                   *)
(***************************************************************************)
Pending(calls) == {i \in 1..Len(calls) : calls[i].status = "pending"}

\* C13: the shadow verdict and the placeholder appear only once the reader, the socket probe,
\* the Docker probe (or its skip) and the WSL probe of the scan have all completed.
C13_VerdictAfterProbes ==
    (result.shadow_detected \/ WithSource(result.bindings, "UnknownShadow") # {}) =>
        /\ pc = "scanned"
        /\ docker_calls # <<>>
        /\ Pending(docker_calls) = {}

\* all sources but WSL are silent, the probe says in use, and no verdict exists yet
C13_Witness ==
    /\ pc = "wsl"
    /\ port_in_use
    /\ ~has_visible_bindings
    /\ Len(docker_calls) = 2
    /\ docker_bindings = <<>>
    /\ ~result.shadow_detected

\* C15: when the socket-table enumeration fails, list_bindings returns the empty result and
\* the scan goes on: probe, Docker and WSL are merged and the verdict is the one of a silent
\* Windows source.
C15_ReaderFailure ==
    (pc # "idle" /\ ~sockets.ok) =>
        /\ result.conflict_pids = <<>>
        /\ result.orphan_pids = <<>>
        /\ WithSource(result.bindings, "Windows") = {}
        /\ pc = "docker_info" =>
              /\ result.bindings = <<>>
              /\ result.docker_bindings = <<>> /\ result.wsl_bindings = <<>>
              /\ ~result.shadow_detected
        /\ pc = "scanned" =>
              /\ Pending(docker_calls) = {}
              /\ result.shadow_detected =
                    (port_in_use /\ result.docker_bindings = <<>> /\ result.wsl_bindings = <<>>)
              /\ Cardinality(WithSource(result.bindings, "Docker")) = Len(result.docker_bindings)
              /\ Cardinality(WithSource(result.bindings, "Wsl")) = Cardinality(KeptWsl)
              /\ Len(result.bindings) =
                    Len(result.docker_bindings) + Cardinality(KeptWsl)
                        + IF result.shadow_detected THEN 1 ELSE 0

C15_Witness ==
    /\ pc = "scanned"
    /\ ~sockets.ok
    /\ port_in_use
    /\ WithSource(result.bindings, "Docker") # {}
    /\ WithSource(result.bindings, "Wsl") # {}

\* C16: when docker info cannot be started or exits unsuccessfully, docker ps is not run in the
\* scan and no Docker record or binding exists; docker ps runs only after a successful docker
\* info, and a failing docker ps yields no record either.
C16_DockerGating ==
    /\ (docker_calls # <<>> /\ docker_calls[1].status \in {"spawn_error", "exit_nonzero"}) =>
          /\ Len(docker_calls) = 1
          /\ pc \in {"wsl", "scanned"}
          /\ docker_bindings = <<>>
          /\ result.docker_bindings = <<>>
          /\ WithSource(result.bindings, "Docker") = {}
    /\ Len(docker_calls) > 1 =>
          /\ Len(docker_calls) = 2
          /\ docker_calls[1] = [cmd |-> "docker info", status |-> "exit_zero"]
          /\ docker_calls[2].cmd = "docker ps"
    /\ (Len(docker_calls) > 1 /\ docker_calls[2].status = "failed") =>
          /\ docker_bindings = <<>>
          /\ WithSource(result.bindings, "Docker") = {}

C16_Witness ==
    /\ pc = "scanned"
    /\ docker_calls = <<[cmd |-> "docker info", status |-> "exit_nonzero"]>>
    /\ WithSource(result.bindings, "Wsl") # {}

\* C20: every binding has one of the four sources; is_orphan and is_system are false on every
\* Docker, Wsl and UnknownShadow binding, and never both true on a Windows binding.
C20_FlagsBySource ==
    \A i \in 1..Len(result.bindings) :
        LET b == result.bindings[i]
        IN  /\ b.source \in {"Windows", "Docker", "Wsl", "UnknownShadow"}
            /\ b.source # "Windows" => ~b.is_orphan /\ ~b.is_system
            /\ ~(b.is_orphan /\ b.is_system)

\* a system socket whose PID the snapshot lacks, next to a Docker binding, which has pid 0
C20_Witness ==
    /\ pc = "scanned"
    /\ \E i, j \in 1..Len(result.bindings) :
          /\ result.bindings[i].source = "Windows" /\ result.bindings[i].pid = 4 /\ 4 \notin sys
          /\ result.bindings[j].source = "Docker" /\ result.bindings[j].pid = 0

\* C19 as stated: a container that is not running but has a mapping for the scanned host port
\* contributes a Docker binding to the scan result.
C19_StoppedContainersListed ==
    (pc = "scanned" /\ Len(docker_calls) = 2 /\ docker_calls[2].status = "exit_zero") =>
        \A i \in 1..Len(containers) :
            (~containers[i].running /\ containers[i].mapping.host_port = port) =>
                \E k \in 1..Len(result.bindings) :
                    /\ result.bindings[k].source = "Docker"
                    /\ result.bindings[k].source_detail = containers[i].mapping.container_id

\* C14: a scan repeated for the same port while every source returns the same data returns
\* the same binding sequence, the same conflict_pids and orphan_pids as sets, the same raw
\* Docker and WSL records and the same shadow_detected as the first one.
C14_Idempotent ==
    (round = 2 /\ pc = "scanned") =>
        /\ result.bindings = first.result.bindings
        /\ SeqToSet(result.conflict_pids) = SeqToSet(first.result.conflict_pids)
        /\ SeqToSet(result.orphan_pids) = SeqToSet(first.result.orphan_pids)
        /\ result.docker_bindings = first.result.docker_bindings
        /\ result.wsl_bindings = first.result.wsl_bindings
        /\ result.shadow_detected = first.result.shadow_detected

\* a repeated scan that found Windows, Docker and WSL bindings
C14_Witness ==
    /\ round = 2
    /\ pc = "scanned"
    /\ WithSource(result.bindings, "Windows") # {}
    /\ WithSource(result.bindings, "Docker") # {}
    /\ WithSource(result.bindings, "Wsl") # {}
    /\ result.conflict_pids # <<>>

(***************************************************************************)
(* The WSL sweep.                                                          *)
(***************************************************************************)
\* the rows for port p among the first n queries, those of the failed queries left out
RECURSIVE RowsOfSucceeded(_, _, _)
RowsOfSucceeded(outs, p, n) ==
    IF n = 0 THEN <<>>
    ELSE RowsOfSucceeded(outs, p, n - 1)
         \o (IF outs[n].ok THEN SelectSeq(outs[n].rows, LAMBDA row : row.port = p) ELSE <<>>)

\* C17: whatever distros are listed and whichever of their ss queries fail, the sweep queries
\* every listed distro, in order, and returns exactly the rows for the scanned port that the
\* successful queries printed; a failed listing gives an empty result.
C17_SweepTolerant ==
    pc = "sweep_returned" =>
        /\ Len(wsl_calls) = Len(distros_out.names)
        /\ \A i \in 1..Len(wsl_calls) : wsl_calls[i][3] = distros_out.names[i]
        /\ sweep_acc = RowsOfSucceeded(ss_out, port, Len(ss_out))
        /\ ~distros_out.ok => sweep_acc = <<>> /\ wsl_calls = <<>>

\* the first distro's query failed after printing a row for the port, the second one's
\* succeeded with a row for the port
C17_Witness ==
    /\ pc = "sweep_returned"
    /\ Len(ss_out) = 2
    /\ ~ss_out[1].ok /\ \E i \in 1..Len(ss_out[1].rows) : ss_out[1].rows[i].port = port
    /\ ss_out[2].ok /\ sweep_acc # <<>>

(***************************************************************************)
(* The Docker port-mapping parser.                                         *)
(***************************************************************************)
\* the texts of the model that spell a port, with the port each one spells
PortSpelling == [t \in {"80", "90", "3000", "8080", "9090"} |->
                    CASE t = "80" -> 80 [] t = "90" -> 90 [] t = "3000" -> 3000
                      [] t = "8080" -> 8080 [] t = "9090" -> 9090]

\* the triples an entry yields for target t: it has an arrow, the text after the last colon
\* of what precedes the first arrow (all of it when it has no colon) spells t, and the text
\* between that arrow and the first slash, if any, spells a port
Yield(m, t) ==
    LET arrows == {i \in 1..(Len(m) - 1) : SubSeq(m, i, i + 1) = "->"}
    IN  IF arrows = {} THEN {}
        ELSE LET a == Min(arrows)
                 before == SubSeq(m, 1, a - 1)
                 after == SubSeq(m, a + 2, Len(m))
                 host == {SubSeq(before, i + 1, Len(before)) : i \in {0} \cup Colons(before)}
                 slashes == {i \in 1..Len(after) : SubSeq(after, i, i) = "/"}
                 cut == IF slashes = {} THEN Len(after) + 1 ELSE Min(slashes)
                 cport == SubSeq(after, 1, cut - 1)
             IN  {<<t, PortSpelling[cport],
                    IF slashes = {} THEN "tcp" ELSE SubSeq(after, cut + 1, Len(after))>> :
                      h \in {x \in host : /\ Colons(x) = {}
                                            /\ x \in DOMAIN PortSpelling
                                            /\ cport \in DOMAIN PortSpelling
                                            /\ PortSpelling[x] = t}}

\* the entries of the lines that have the four fields, in order, each with its line
RECURSIVE EntriesOf(_)
EntriesOf(lines) ==
    IF lines = <<>> THEN <<>>
    ELSE LET parts == Split(Head(lines), "|")
             es == IF Len(parts) < 4 THEN <<>> ELSE Split(parts[4], ", ")
         IN  [i \in 1..Len(es) |-> [parts |-> parts, entry |-> es[i]]] \o EntriesOf(Tail(lines))

Yielding(lines, t) == SelectSeq(EntriesOf(lines), LAMBDA e : Yield(e.entry, t) # {})

\* C18: the probe returns one record per entry that has an arrow, whose text after the last
\* colon before the arrow spells the target port and whose text between the arrow and an
\* optional slash spells a port, with the protocol after the slash or "tcp"; every other
\* entry is skipped and the entries around it, of the same line or of other lines, are kept.
C18_MappingParser ==
    pc = "ps_returned" =>
        LET kept == Yielding(ps_stdout, port)
        IN  /\ Len(parse_acc) = Len(kept)
            /\ \A i \in 1..Len(kept) :
                  /\ <<parse_acc[i].host_port, parse_acc[i].container_port,
                        parse_acc[i].protocol>> \in Yield(kept[i].entry, port)
                  /\ parse_acc[i].container_id = kept[i].parts[1]
                  /\ parse_acc[i].container_name = kept[i].parts[2]
                  /\ parse_acc[i].image = kept[i].parts[3]
            /\ ps_stdout = <<"a1b2|web|nginx|0.0.0.0:8080->80/tcp">> =>
                  parse_acc = IF port = 8080
                                  THEN <<[container_id |-> "a1b2", container_name |-> "web",
                                          image |-> "nginx", host_port |-> 8080,
                                          container_port |-> 80, protocol |-> "tcp"]>>
                                  ELSE <<>>

\* a malformed entry before a well-formed one, and an entry without an arrow after one
C18_Witness ==
    /\ pc = "ps_returned"
    /\ port = 8080
    /\ ps_stdout = <<"a1b2|web|nginx|0.0.0.0:x->80/tcp, 0.0.0.0:8080->80/tcp",
                     "a1b2|web|nginx|:::8080->80/tcp, 80/tcp">>
    /\ Len(parse_acc) = 2

(***************************************************************************)
(* Force Close: the diagnosis and the handler.                             *)
(***************************************************************************)
\* the ports each netsh line of the model names after a colon
PortsNamed ==
    [line \in NetshLines |->
        CASE line = "    Reserved URL            : http://+:8080/" -> {8080}
          [] line = "    Reserved URL            : http://+:80/Temporary_Listen_Addresses/" -> {80}
          [] line = "        HTTP://LOCALHOST:3000/" -> {3000}
          [] OTHER -> {}]

\* the text filter of the diagnosis: the line holds a colon followed by the digits of the port
Mentions(line, p) == Contains(line, ":" \o ToString(p))

\* the queries that ran and printed a line that mentions the port of the binding
Informative ==
    {i \in 1..Len(netsh) : /\ netsh[i].executed
                           /\ \E k \in 1..Len(netsh[i].lines) :
                                 Mentions(netsh[i].lines[k], binding.local_port)}

\* C11: force_close_socket runs both netsh queries whatever the first one does, and returns Ok
\* exactly when one of them executed and printed a line that the text filter keeps for the port
\* of the binding, Err otherwise, in particular when neither could be executed.
C11_DiagnosisResult ==
    pc \in {"fc_returned", "fc_net_start", "fc_rescan", "fc_done"} =>
        /\ Len(netsh) = 2
        /\ netsh[1].args = <<"http", "show", "urlacl">>
        /\ netsh[2].args = <<"http", "show", "servicestate", "view=requestq">>
        /\ fc_ret.ok = (Informative # {})
        /\ (~netsh[1].executed /\ ~netsh[2].executed) => ~fc_ret.ok

\* the first query could not be executed, the second one names the port: Ok
C11_Witness ==
    /\ pc = "fc_returned"
    /\ ~netsh[1].executed
    /\ Informative = {2}
    /\ fc_ret.ok

Ops(log) == [i \in 1..Len(log) |-> log[i].op]

\* C12: an elevated caller gets the HTTP service restart after the diagnosis whether the
\* diagnosis returned Ok or Err, and then the rescan whose result is stored; a caller that is
\* not elevated never gets the restart.
C12_RestartAndRescan ==
    /\ effects # <<>> => Len(netsh) = 2
    /\ ~is_admin => \A i \in 1..Len(effects) :
                        effects[i].op \notin {"net stop http /y", "net start http"}
    /\ (is_admin /\ pc = "fc_done") =>
          /\ Ops(effects) = <<"net stop http /y", "sleep", "net start http", "sleep",
                              "list_bindings_enhanced", "write scan_result">>
          /\ scan_result \in ScanResultsOf(effects[5].arg)

\* an elevated caller, a diagnosis that returned Err, a restart and a rescan that shows the
\* orphan gone
C12_Witness ==
    /\ pc = "fc_done"
    /\ is_admin
    /\ ~fc_ret.ok
    /\ Len(effects) = 6
    /\ OrphanRows(scan_result) = {}
    /\ status_type = "success"

(***************************************************************************)
(* Properties of the merged scan result: ports, PIDs and the PID sets.     *)
(***************************************************************************)
ScanPcs == {"docker_info", "docker_ps", "wsl", "scanned"}

\* C27: every binding of the result of a scan has local_port equal to the scanned port, and
\* every raw record kept in docker_bindings and wsl_bindings has host_port / port equal to it.
C27_PortsMatch ==
    pc \in ScanPcs =>
        /\ \A i \in 1..Len(result.bindings) : result.bindings[i].local_port = port
        /\ \A i \in 1..Len(result.docker_bindings) : result.docker_bindings[i].host_port = port
        /\ \A i \in 1..Len(result.wsl_bindings) : result.wsl_bindings[i].port = port
        /\ \A i \in 1..Len(docker_bindings) : docker_bindings[i].host_port = port
        /\ \A i \in 1..Len(wsl_bindings) : wsl_bindings[i].port = port

\* a scan of port 3000 that kept a Docker and a WSL binding and left out the socket-table
\* entries of port 8080
C27_Witness ==
    /\ pc = "scanned"
    /\ port = 3000
    /\ sockets.ok
    /\ \E i \in 1..Len(sockets.entries) : sockets.entries[i].local_port = 8080
    /\ WithSource(result.bindings, "Windows") = {}
    /\ WithSource(result.bindings, "Docker") # {}
    /\ WithSource(result.bindings, "Wsl") # {}

PidsOf(bindings, src) ==
    LET idx == WithSource(bindings, src)
        nth(k) == CHOOSE i \in idx : Cardinality({j \in idx : j < i}) = k - 1
    IN  [k \in 1..Cardinality(idx) |-> bindings[nth(k)].pid]

\* the PIDs of the WSL records that the deduplication rule lets through, in record order
KeptWslPids ==
    LET nth(k) == CHOOSE i \in KeptWsl : Cardinality({j \in KeptWsl : j < i}) = k - 1
    IN  [k \in 1..Cardinality(KeptWsl) |-> result.wsl_bindings[nth(k)].pid]

WindowsOrphans ==
    IF ~sockets.ok THEN {}
    ELSE {p \in Pids : p \notin {0, 4} /\ p \notin sys /\ \E i \in Matching : Owner(sockets.entries[i]) = p}

\* the PIDs that the Windows socket table of this call makes conflicts on the scanned port
WindowsConflicts ==
    IF ~sockets.ok THEN {}
    ELSE {p \in Pids : OwnedIn(p, LoopbackAddrs) /\ OwnedIn(p, WildcardAddrs)}

\* C21: conflict_pids and orphan_pids are a function of the Windows socket table, the process
\* snapshot and the port: whatever the socket probe, docker and WSL return, they hold the
\* Windows PIDs only, through every step of the scan.
C21_WindowsOnlySets ==
    pc \in ScanPcs =>
        /\ SeqToSet(result.conflict_pids) = WindowsConflicts
        /\ SeqToSet(result.orphan_pids) = WindowsOrphans

\* a guest PID that listens on 127.0.0.1 and on 0.0.0.0 is shown twice, with a Windows orphan,
\* and enters neither set
C21_Witness ==
    /\ pc = "scanned"
    /\ \E i, j \in WithSource(result.bindings, "Wsl") :
          /\ result.bindings[i].pid = 1234 /\ result.bindings[i].is_loopback
          /\ result.bindings[j].pid = 1234 /\ result.bindings[j].is_all_interfaces
    /\ result.conflict_pids = <<>>
    /\ result.orphan_pids = <<7>>

(***************************************************************************)
(* Force Close: which port the diagnosis and the rescan are about.         *)
(***************************************************************************)
\* the queries that ran and printed a line whose URL has the port of the binding
NamesBindingPort ==
    {i \in 1..Len(netsh) : /\ netsh[i].executed
                           /\ \E k \in 1..Len(netsh[i].lines) :
                                 binding.local_port \in PortsNamed[netsh[i].lines[k]]}

\* C29 as stated: force_close_socket returns Ok only when a URL-reservation or active-listener
\* line refers to the port of the binding itself; a line for port 8080 is no match for port 80.
C29_OwnPortOnly ==
    (pc \in {"fc_returned", "fc_net_start", "fc_rescan", "fc_done"} /\ fc_ret.ok) =>
        NamesBindingPort # {}

\* C25 as stated: the rescan that follows a remediation scans the port of the binding that
\* was acted upon, whatever the port input holds by then.
C25_RescanBindingPort ==
    \A i \in 1..Len(effects) :
        effects[i].op = "list_bindings_enhanced" => effects[i].arg = binding.local_port

(***************************************************************************)
(* The ss row parser.                                                      *)
(***************************************************************************)
\* the port each address text of the model spells after its last colon (the whole text when it
\* has no colon), ParseErr when that is no u16
SsAddrPort ==
    [a \in SsAddrTexts |->
        CASE a \in {"0.0.0.0:8080", "[::]:8080", "0.0.0.0:+8080", "8080"} -> 8080
          [] a = "*:3000" -> 3000
          [] a = "127.0.0.1:808" -> 808
          [] OTHER -> ParseErr]

\* the process each tail of the model names in its last field: the name between ((" and the
\* closing quote, and the number the digits right after pid= spell, 0 without such a number
SsTailProcess ==
    [t \in SsTails |->
        CASE t = <<"0.0.0.0:*", "users:((\"node\",pid=1234,fd=21))">> -> [process_name |-> "node", pid |-> 1234]
          [] t = <<"0.0.0.0:*", "users:((\"node\",pid=1234">> -> [process_name |-> "node", pid |-> 1234]
          [] t = <<"0.0.0.0:*", "users:((\"node\",pid=12ab,fd=21))">> -> [process_name |-> "node", pid |-> 12]
          [] t \in {<<"0.0.0.0:*", "users:((\"node\",fd=21))">>,
                    <<"0.0.0.0:*", "users:((\"node\",pid=abc,fd=21))">>,
                    <<"0.0.0.0:*", "users:((\"node\",pid=,fd=21))">>,
                    <<"0.0.0.0:*", "users:((\"node\",pid=99999999999,fd=21))">>}
               -> [process_name |-> "node", pid |-> 0]
          [] t = <<"[::]:*", "users:((\"nginx\",pid=77,fd=6),(\"nginx\",pid=78,fd=7))">>
               -> [process_name |-> "nginx", pid |-> 77]
          [] OTHER -> [process_name |-> "unknown", pid |-> 0]]

\* the row a line of the model was printed for
RowOf == [line \in {SsText(r) : r \in SsRows} |-> CHOOSE r \in SsRows : SsText(r) = line]

\* what the claim lets a line contribute to a sweep for port p in distro d
ExpectedOf(line, p, d) ==
    IF line \in {"LISTEN 0 4096", ""} THEN <<>>
    ELSE LET r == RowOf[line]
         IN  IF 4 + Len(r.tail) >= 5 /\ SsAddrPort[r.addr] = p
                 THEN <<[distro |-> d, process_name |-> SsTailProcess[r.tail].process_name,
                         pid |-> SsTailProcess[r.tail].pid, port |-> p, local_addr |-> r.addr]>>
                 ELSE <<>>

RECURSIVE ExpectedRows(_, _, _)
ExpectedRows(lines, p, d) ==
    IF lines = <<>> THEN <<>>
    ELSE ExpectedOf(Head(lines), p, d) \o ExpectedRows(Tail(lines), p, d)

\* C26: a row is kept iff it has at least five whitespace-separated fields and its fourth
\* field spells the target port after its last colon; the process column never drops a row:
\* without a quoted name the row is kept as "unknown" with pid 0, with a name and no number
\* after pid= it is kept with pid 0.
C26_RowParser ==
    pc \in {"ss_loop", "ss_done"} =>
        ss_acc = ExpectedRows(SubSeq(ss_stdout, 2, ss_idx - 1), port, ss_distro)

\* a row without a process column is kept as unknown/0, and the row after it, whose pid= has
\* no number, is kept with its name and pid 0
C26_Witness ==
    /\ pc = "ss_done"
    /\ port = 8080
    /\ ss_stdout = <<SsHeader, "LISTEN 0 4096 0.0.0.0:8080 0.0.0.0:*",
                     "LISTEN 0 4096 0.0.0.0:8080 0.0.0.0:* users:((\"node\",pid=abc,fd=21))">>
    /\ Len(ss_acc) = 2
    /\ ss_acc[1].process_name = "unknown" /\ ss_acc[1].pid = 0
    /\ ss_acc[2].process_name = "node" /\ ss_acc[2].pid = 0

(***************************************************************************)
(* The ports page.                                                         *)
(***************************************************************************)
\* the tasks of one kind whose call of list_bindings_enhanced is awaited, returning or not
InFlight(kind) == {t \in BagToSet(tasks) : t.kind = kind /\ t.pc \in {"scanning", "hung"}}

\* a kill task ends with Err: it leaves the task list without having stored anything
KillFails ==
    \E t \in BagToSet(tasks) : t.pc = "kill" /\ tasks' = Ended(t)

\* the results single calls of list_bindings_enhanced return to the page
WholeResults == UNION {PageResults[p] : p \in DOMAIN PageResults}

\* C23: the stored scan_result is the default result or the whole result of one call of
\* list_bindings_enhanced, whatever Scan, Kill, Force Close and Clear did before; a kill that
\* fails leaves it as it was.
C23_WholesaleReplace ==
    /\ [](scan_result \in {DefaultPortScanResult} \cup WholeResults)
    /\ [][KillFails => scan_result' = scan_result]_vars

\* a rescan after Force Close has replaced a displayed result that held an orphan by the
\* result of another call, while a kill task is waiting
C23_Witness ==
    /\ pc = "page"
    /\ shown
    /\ scan_calls = 2
    /\ scan_result.bindings # <<>>
    /\ scan_result.orphan_pids = <<>>
    /\ \E t \in BagToSet(tasks) : t.kind = "kill" /\ t.pc = "kill"

\* C24: Force Close is triggered only from a row with source Windows and is_orphan, Kill only
\* from a row with source Windows that is neither orphan nor system, so on_kill never gets
\* PID 0 or 4; a Docker, WSL or shadow row offers neither.
C24_RemediationBySource ==
    /\ \A t \in BagToSet(tasks) :
          /\ t.kind = "force_close" =>
                t.row[1].source = "Windows" /\ t.row[1].is_orphan
          /\ t.kind = "kill" =>
                /\ t.row[1].source = "Windows" /\ ~t.row[1].is_orphan /\ ~t.row[1].is_system
                /\ t.row[1].pid \notin {0, 4}
    /\ \A i \in 1..Len(scan_result.bindings) :
          LET b == scan_result.bindings[i]
          IN  b.source \in {"Docker", "Wsl", "UnknownShadow"} => row_action(b) \notin {"kill", "force_close"}

\* a kill task for PID 7 is suspended while the page shows a System row, which offers nothing
C24_Witness ==
    /\ \E t \in BagToSet(tasks) : t.kind = "kill" /\ t.row[1].pid = 7
    /\ \E i \in 1..Len(scan_result.bindings) :
          scan_result.bindings[i].pid = 4 /\ row_action(scan_result.bindings[i]) = "system"

\* C28 as stated: once no handler is suspended, the stored scan_result is what the most
\* recently started call of list_bindings_enhanced returned.
C28_LatestStartedWins ==
    (pc = "page" /\ tasks = EmptyBag /\ shown) => scan_result = latest

\* the number of tasks of the Scan button in a bag of tasks
ButtonScans(bag) == BagCardinality([t \in {u \in BagToSet(bag) : u.kind = "scan"} |-> bag[t]])

\* a button scan whose external commands never return
Hung == \E t \in InFlight("scan") : t.pc = "hung"

====
